---- MODULE Spec2Model ----
(***************************************************************************)
(* A model of the bytemare/ecc group dispatch layer: the lazily            *)
(* initialised group registry (Group.get, sync.Once per identifier and the *)
(* NIST package's own per-curve sync.Once), the top-level Group API        *)
(* (MakeDST, HashToGroup, EncodeToGroup, HashToScalar, ...), and the       *)
(* element operations of the Edwards25519 and NIST backends.               *)
(***************************************************************************)
EXTENDS Integers, Sequences, FiniteSets, TLC

VARIABLES
    once,       \* once[g]: the sync.Once of slot g-1: [done, m]
    groups,     \* groups[g]: the internal.Group stored in slot g-1
    nistOnce,   \* initOnceP256 / initOnceP384 / initOnceP521
    nistVar,    \* the package variables p256 / p384 / p521
    inits,      \* history: how many times Group.init ran for each identifier
    th,         \* per goroutine: position in Group.get and what it returned
    ncalls,     \* history: number of calls started so far
    api,        \* the last top-level Group call and its outcome
    elem,       \* the receiver element and the last element operation
    enc,        \* the receiver of Encode / Decode and the last such call
    js,         \* the last JSONReGetGroup call and its outcome
    mem         \* elements as Go keeps them: variables, elements, points

vars == <<once, groups, nistOnce, nistVar, inits, th, ncalls, api, elem, enc, js, mem>>

----------------------------------------------------------------------------
(* Bounds of the model *)

NumThreads == 2
MaxCalls == 3
MaxGroupInput == 7
Order == 5

----------------------------------------------------------------------------
(* Group identifiers and constants of the dispatcher *)

Ristretto255Sha512 == 1
decaf448Shake256 == 2
P256Sha256 == 3
P384Sha384 == 4
P521Sha512 == 5
Edwards25519Sha512 == 6
maxID == 7
minLength == 0
recommendedMinLength == 16

Slots == 1..(maxID - 1)
GroupInputs == 0..MaxGroupInput
Threads == 1..NumThreads
NoThread == 0

errInvalidID == "invalid group identifier"
errZeroLenDST == "zero-length DST"
panicDecaf == "Decaf is not yet supported"
panicNotRecognized == "group not recognized"
panicNilDeref == "runtime error: invalid memory address or nil pointer dereference"
panicIndex == "runtime error: index out of range"
NoFault == "none"

\* a nil internal.Group
Nil == [kind |-> "nil", ref |-> "nil"]

\* values: n*B for an integer n modulo the group order, or the image of a hash
Mul(n) == [k |-> "mul", n |-> n, count |-> 0, input |-> "", dst |-> ""]

\* no value returned
NoValue == [typ |-> "none", curve |-> "none", field |-> "none", v |-> Mul(0)]

\* a nil internal.Element / internal.Scalar / *Element / *Scalar
NilValue == [typ |-> "nil", curve |-> "nil", field |-> "none", v |-> Mul(0)]

\* Available reports whether the given Group is linked into the binary.
AvailableLowerOnly(g) == 0 < g

Available(g) == 0 < g /\ g < maxID

----------------------------------------------------------------------------
(* The NIST package: P256(), P384(), P521() and their initialisers *)

NistCurves == {"p256", "p384", "p521"}

H2CP256 == "P256_XMD:SHA-256_SSWU_RO_"
H2CP384 == "P384_XMD:SHA-384_SSWU_RO_"
H2CP521 == "P521_XMD:SHA-512_SSWU_RO_"

\* the zero value of a Group[P] package variable
ZeroGroup == [h2c |-> "", fieldBits |-> 0, secLength |-> 0, scalarField |-> "unset"]

initP256 == [h2c |-> H2CP256, fieldBits |-> 256, secLength |-> 48, scalarField |-> "order-p256"]
initP384 == [h2c |-> H2CP384, fieldBits |-> 384, secLength |-> 72, scalarField |-> "order-p384"]
initP521 == [h2c |-> H2CP521, fieldBits |-> 521, secLength |-> 98, scalarField |-> "order-p521"]

nistInit(c) ==
    CASE c = "p256" -> initP256
      [] c = "p384" -> initP384
      [] c = "p521" -> initP521

\* which package variable a NIST identifier resolves to (Group.init's switch)
nistCurveOf(g) ==
    CASE g = P256Sha256 -> "p256"
      [] g = P384Sha384 -> "p384"
      [] g = P521Sha512 -> "p521"

IsNist(g) == g \in {P256Sha256, P384Sha384, P521Sha512}

\* what the constructor handed to initGroup returns for the non-NIST groups
ristrettoNew == [kind |-> "ristretto", ref |-> "ristretto.Group"]
edwards25519New == [kind |-> "edwards25519", ref |-> "edwards25519.Group"]
nistPtr(c) == [kind |-> "nist", ref |-> c]

\* Group.init: the outcome of the switch for identifier g, before the nested
\* NIST once is run: "set" (a constructor that cannot block), "nist", "panic"
initKind(g) ==
    CASE g = Ristretto255Sha512 -> [k |-> "set", inst |-> ristrettoNew, fault |-> NoFault]
      [] g = decaf448Shake256 -> [k |-> "panic", inst |-> Nil, fault |-> panicDecaf]
      [] IsNist(g) -> [k |-> "nist", inst |-> nistPtr(nistCurveOf(g)), fault |-> NoFault]
      [] g = Edwards25519Sha512 -> [k |-> "set", inst |-> edwards25519New, fault |-> NoFault]
      [] OTHER -> [k |-> "panic", inst |-> Nil, fault |-> panicNotRecognized]

\* initGroup: groups[g-1] = get()
initGroup(gs, g, inst) == [gs EXCEPT ![g] = inst]

----------------------------------------------------------------------------
(* sync.Once *)

NewOnce == [done |-> FALSE, m |-> NoThread]

\* the fast path of Once.Do: o.done.Load() == 0 selects doSlow
onceNeedsSlowNever(o) == FALSE

onceNeedsSlow(o) == ~o.done

\* doSlow, under o.m: f runs only if done is still 0
onceRunsFAlways(o) == TRUE

onceRunsF(o) == ~o.done

----------------------------------------------------------------------------
(* Goroutines calling Group.get concurrently *)

\* no top-level call made yet
NoApi == [op |-> "none", g |-> 0, app |-> "", version |-> 0, input |-> "", dst |-> "",
          stage |-> "none", fault |-> NoFault, str |-> "", val |-> NoValue, callee |-> "none"]

\* no element operation made yet
NoElem == [op |-> "none", x |-> NilValue, old |-> NilValue, arg |-> NilValue,
           fault |-> NoFault, eq |-> FALSE]

\* no encoding or decoding call made yet
NoEnc == [op |-> "none", x |-> NilValue, old |-> NilValue, input |-> <<>>, out |-> <<>>,
          err |-> NoFault, len |-> 0]

\* no JSONReGetGroup call made yet
NoJs == [s |-> <<>>, called |-> FALSE, group |-> 0, err |-> NoFault, fault |-> NoFault,
         key |-> [given |-> FALSE, k |-> <<>>]]

\* no element allocated yet
NoMem == [x |-> 0, c |-> 0, r |-> [typ |-> "nil", curve |-> "nil", pt |-> 0],
          objs |-> <<>>, pts |-> <<>>,
          last |-> [op |-> "none", recv |-> "none", arg |-> "none", ret |-> 0, fault |-> NoFault]]

IdleThread == [pc |-> "idle", g |-> 0, slow |-> FALSE, panicking |-> NoFault,
               ret |-> [kind |-> "none", g |-> 0, val |-> Nil, fault |-> NoFault]]

RegInit ==
    /\ once = [g \in Slots |-> NewOnce]
    /\ groups = [g \in Slots |-> Nil]
    /\ nistOnce = [c \in NistCurves |-> NewOnce]
    /\ nistVar = [c \in NistCurves |-> ZeroGroup]
    /\ inits = [g \in Slots |-> 0]

Init ==
    /\ RegInit
    /\ th = [t \in Threads |-> IdleThread]
    /\ ncalls = 0
    /\ api = NoApi
    /\ elem = NoElem
    /\ enc = NoEnc
    /\ js = NoJs
    /\ mem = NoMem

UnchangedOther == UNCHANGED <<api, elem, enc, js, mem>>

\* a goroutine starts g.get() for some byte value g
Call(t, g) ==
    /\ th[t].pc = "idle"
    /\ ncalls < MaxCalls
    /\ ncalls' = ncalls + 1
    /\ th' = [th EXCEPT ![t] = [IdleThread EXCEPT !.pc = "get", !.g = g]]
    /\ UNCHANGED <<once, groups, nistOnce, nistVar, inits>>
    /\ UnchangedOther

\* if !g.Available() { panic(errInvalidID) }
GetAvailable(t) ==
    /\ th[t].pc = "get"
    /\ IF Available(th[t].g)
         THEN th' = [th EXCEPT ![t].pc = "onceDo"]
         ELSE th' = [th EXCEPT ![t].pc = "idle",
                               ![t].ret = [kind |-> "panic", g |-> th[t].g, val |-> Nil,
                                           fault |-> errInvalidID]]
    /\ UNCHANGED <<once, groups, nistOnce, nistVar, inits, ncalls>>
    /\ UnchangedOther

\* once[g-1].Do(g.init): the fast path
\* (indexing once[g-1] outside the array is a runtime panic)
OnceDo(t) ==
    /\ th[t].pc = "onceDo"
    /\ IF th[t].g \notin Slots
         THEN th' = [th EXCEPT ![t].pc = "idle",
                               ![t].ret = [kind |-> "panic", g |-> th[t].g, val |-> Nil,
                                           fault |-> panicIndex]]
         ELSE IF onceNeedsSlow(once[th[t].g])
                THEN th' = [th EXCEPT ![t].pc = "onceLock", ![t].slow = TRUE]
                ELSE th' = [th EXCEPT ![t].pc = "getRet"]
    /\ UNCHANGED <<once, groups, nistOnce, nistVar, inits, ncalls>>
    /\ UnchangedOther

\* doSlow: o.m.Lock()
OnceLock(t) ==
    /\ th[t].pc = "onceLock"
    /\ once[th[t].g].m = NoThread
    /\ once' = [once EXCEPT ![th[t].g].m = t]
    /\ th' = [th EXCEPT ![t].pc = "onceSlow"]
    /\ UNCHANGED <<groups, nistOnce, nistVar, inits, ncalls>>
    /\ UnchangedOther

\* doSlow: if o.done.Load() == 0 { defer o.done.Store(1); f() }
OnceSlow(t) ==
    /\ th[t].pc = "onceSlow"
    /\ IF onceRunsF(once[th[t].g])
         THEN /\ th' = [th EXCEPT ![t].pc = "init"]
              /\ inits' = [inits EXCEPT ![th[t].g] = @ + 1]
         ELSE /\ th' = [th EXCEPT ![t].pc = "onceUnlock"]
              /\ UNCHANGED inits
    /\ UNCHANGED <<once, groups, nistOnce, nistVar, ncalls>>
    /\ UnchangedOther

\* g.init(): the switch; the constructors of the non-NIST groups return at once
InitSwitch(t) ==
    /\ th[t].pc = "init"
    /\ LET k == initKind(th[t].g) IN
         CASE k.k = "set" ->
                /\ groups' = initGroup(groups, th[t].g, k.inst)
                /\ th' = [th EXCEPT ![t].pc = "onceStore"]
           [] k.k = "panic" ->
                /\ UNCHANGED groups
                /\ th' = [th EXCEPT ![t].pc = "onceStore", ![t].panicking = k.fault]
           [] k.k = "nist" ->
                /\ UNCHANGED groups
                /\ th' = [th EXCEPT ![t].pc = "nistDo"]
    /\ UNCHANGED <<once, nistOnce, nistVar, inits, ncalls>>
    /\ UnchangedOther

\* nist.P256(): initOnceP256.Do(initP256), the fast path
NistDo(t) ==
    /\ th[t].pc = "nistDo"
    /\ IF onceNeedsSlow(nistOnce[nistCurveOf(th[t].g)])
         THEN th' = [th EXCEPT ![t].pc = "nistLock"]
         ELSE th' = [th EXCEPT ![t].pc = "nistRet"]
    /\ UNCHANGED <<once, groups, nistOnce, nistVar, inits, ncalls>>
    /\ UnchangedOther

NistLock(t) ==
    /\ th[t].pc = "nistLock"
    /\ LET c == nistCurveOf(th[t].g) IN
         /\ nistOnce[c].m = NoThread
         /\ nistOnce' = [nistOnce EXCEPT ![c].m = t]
    /\ th' = [th EXCEPT ![t].pc = "nistSlow"]
    /\ UNCHANGED <<once, groups, nistVar, inits, ncalls>>
    /\ UnchangedOther

\* doSlow of the curve's once: initP256 / initP384 / initP521 fill the package variable
NistSlow(t) ==
    /\ th[t].pc = "nistSlow"
    /\ LET c == nistCurveOf(th[t].g) IN
         IF onceRunsF(nistOnce[c])
           THEN /\ nistVar' = [nistVar EXCEPT ![c] = nistInit(c)]
                /\ nistOnce' = [nistOnce EXCEPT ![c].done = TRUE]
           ELSE UNCHANGED <<nistVar, nistOnce>>
    /\ th' = [th EXCEPT ![t].pc = "nistUnlock"]
    /\ UNCHANGED <<once, groups, inits, ncalls>>
    /\ UnchangedOther

NistUnlock(t) ==
    /\ th[t].pc = "nistUnlock"
    /\ nistOnce' = [nistOnce EXCEPT ![nistCurveOf(th[t].g)].m = NoThread]
    /\ th' = [th EXCEPT ![t].pc = "nistRet"]
    /\ UNCHANGED <<once, groups, nistVar, inits, ncalls>>
    /\ UnchangedOther

\* return &p256, stored by initGroup
NistRet(t) ==
    /\ th[t].pc = "nistRet"
    /\ groups' = initGroup(groups, th[t].g, nistPtr(nistCurveOf(th[t].g)))
    /\ th' = [th EXCEPT ![t].pc = "onceStore"]
    /\ UNCHANGED <<once, nistOnce, nistVar, inits, ncalls>>
    /\ UnchangedOther

\* the deferred o.done.Store(1): runs whether f returned or panicked
OnceStore(t) ==
    /\ th[t].pc = "onceStore"
    /\ once' = [once EXCEPT ![th[t].g].done = TRUE]
    /\ th' = [th EXCEPT ![t].pc = "onceUnlock"]
    /\ UNCHANGED <<groups, nistOnce, nistVar, inits, ncalls>>
    /\ UnchangedOther

\* an Unlock that leaves the mutex of the once held
OnceUnlockKeepsMutex(t) ==
    /\ th[t].pc = "onceUnlock"
    /\ th' = [th EXCEPT ![t].pc = "getRet"]
    /\ UNCHANGED <<once, groups, nistOnce, nistVar, inits, ncalls>>
    /\ UnchangedOther

\* the deferred o.m.Unlock(); a panic of f then leaves Group.get
OnceUnlock(t) ==
    /\ th[t].pc = "onceUnlock"
    /\ once' = [once EXCEPT ![th[t].g].m = NoThread]
    /\ IF th[t].panicking # NoFault
         THEN th' = [th EXCEPT ![t].pc = "idle",
                               ![t].ret = [kind |-> "panic", g |-> th[t].g, val |-> Nil,
                                           fault |-> th[t].panicking]]
         ELSE th' = [th EXCEPT ![t].pc = "getRet"]
    /\ UNCHANGED <<groups, nistOnce, nistVar, inits, ncalls>>
    /\ UnchangedOther

\* return groups[g-1]
GetRet(t) ==
    /\ th[t].pc = "getRet"
    /\ th' = [th EXCEPT ![t].pc = "idle",
                        ![t].ret = [kind |-> "ok", g |-> th[t].g, val |-> groups[th[t].g],
                                    fault |-> NoFault]]
    /\ UNCHANGED <<once, groups, nistOnce, nistVar, inits, ncalls>>
    /\ UnchangedOther

Next ==
    \E t \in Threads :
        \/ \E g \in GroupInputs : Call(t, g)
        \/ GetAvailable(t)
        \/ OnceDo(t)
        \/ OnceLock(t)
        \/ OnceSlow(t)
        \/ InitSwitch(t)
        \/ NistDo(t)
        \/ NistLock(t)
        \/ NistSlow(t)
        \/ NistUnlock(t)
        \/ NistRet(t)
        \/ OnceStore(t)
        \/ OnceUnlock(t)
        \/ GetRet(t)

Spec == Init /\ [][Next]_vars

------------------------------------------------------------\* one step of goroutine t inside a get it has started
GetStep(t) ==
    \/ GetAvailable(t)
    \/ OnceDo(t)
    \/ OnceLock(t)
    \/ OnceSlow(t)
    \/ InitSwitch(t)
    \/ NistDo(t)
    \/ NistLock(t)
    \/ NistSlow(t)
    \/ NistUnlock(t)
    \/ NistRet(t)
    \/ OnceStore(t)
    \/ OnceUnlock(t)
    \/ GetRet(t)

MaxFairCalls == 2

\* callers of the implemented identifiers only
NextImplemented ==
    \E t \in Threads :
        \/ \E g \in Slots \ {decaf448Shake256} : ncalls < MaxFairCalls /\ Call(t, g)
        \/ GetStep(t)

\* the scheduler lets every goroutine that can take a step take one
SpecFair == Init /\ [][NextImplemented]_vars /\ \A t \in Threads : WF_vars(GetStep(t))

----------------
(* Group.get run to completion by a single caller *)

Reg == [once |-> once, groups |-> groups, nistOnce |-> nistOnce,
        nistVar |-> nistVar, inits |-> inits]

SetReg(r) ==
    /\ once' = r.once
    /\ groups' = r.groups
    /\ nistOnce' = r.nistOnce
    /\ nistVar' = r.nistVar
    /\ inits' = r.inits

\* nist.P256() / P384() / P521(): the curve's once, then the pointer to the package variable
nistGet(r, c) ==
    IF onceNeedsSlow(r.nistOnce[c]) /\ onceRunsF(r.nistOnce[c])
      THEN [r EXCEPT !.nistVar[c] = nistInit(c), !.nistOnce[c].done = TRUE]
      ELSE r

\* g.init() under the once of g, with the deferred done.Store(1)
initOnce(r, g) ==
    LET k == initKind(g)
        r1 == [r EXCEPT !.inits[g] = @ + 1]
        r2 == CASE k.k = "set" -> [r1 EXCEPT !.groups = initGroup(@, g, k.inst)]
                [] k.k = "nist" -> [nistGet(r1, nistCurveOf(g)) EXCEPT
                                        !.groups = initGroup(@, g, k.inst)]
                [] k.k = "panic" -> r1
    IN  [reg |-> [r2 EXCEPT !.once[g].done = TRUE], fault |-> k.fault]

get(r, g) ==
    IF ~Available(g) THEN [reg |-> r, fault |-> errInvalidID, p |-> Nil]
    ELSE IF g \notin Slots THEN [reg |-> r, fault |-> panicIndex, p |-> Nil]
    ELSE IF onceNeedsSlow(r.once[g]) /\ onceRunsF(r.once[g])
      THEN LET i == initOnce(r, g) IN
           IF i.fault # NoFault THEN [reg |-> i.reg, fault |-> i.fault, p |-> Nil]
           ELSE [reg |-> i.reg, fault |-> NoFault, p |-> i.reg.groups[g]]
      ELSE [reg |-> r, fault |-> NoFault, p |-> r.groups[g]]

----------------------------------------------------------------------------
(* The backends behind internal.Group *)

H2CRistretto == "ristretto255_XMD:SHA-512_R255MAP_RO_"
H2CEdwards25519 == "edwards25519_XMD:SHA-512_ELL2_RO_"

\* Ciphersuite returns the hash-to-curve ciphersuite identifier.
Ciphersuite(r, p) ==
    CASE p.kind = "nist" -> r.nistVar[p.ref].h2c
      [] p.kind = "ristretto" -> H2CRistretto
      [] p.kind = "edwards25519" -> H2CEdwards25519

\* the Go type of the elements and scalars a backend hands out
ElementType(p) ==
    CASE p.kind = "nist" -> "nist.Point"
      [] p.kind = "ristretto" -> "ristretto.Element"
      [] p.kind = "edwards25519" -> "edwards25519.Element"

ScalarType(p) ==
    CASE p.kind = "nist" -> "nist.Scalar"
      [] p.kind = "ristretto" -> "ristretto.Scalar"
      [] p.kind = "edwards25519" -> "edwards25519.Scalar"

\* the curve (group parameters) a backend's values live on
CurveOf(p) == IF p.kind = "nist" THEN p.ref ELSE p.kind

\* hash_to_field followed by the curve mapping: count = 2 and the two images
\* added (random oracle), count = 1 and one image (non-uniform)
hashXMD(input, dst) == [k |-> "hash_to_curve", n |-> 0, count |-> 2, input |-> input, dst |-> dst]

encodeXMD(input, dst) == [k |-> "encode_to_curve", n |-> 0, count |-> 1, input |-> input, dst |-> dst]

\* HashToFieldXMD(hash, input, dst, 1, 1, secLength, modulus)[0]
HashToFieldXMD(input, dst) == [k |-> "hash_to_field", n |-> 0, count |-> 1, input |-> input, dst |-> dst]

newPoint(p, v) == [typ |-> ElementType(p), curve |-> CurveOf(p), field |-> "none", v |-> v]

\* HashToGroup allows arbitrary input to be safely mapped to the curve of the group.
backendHashToGroup(p, input, dst) == newPoint(p, hashXMD(input, dst))

\* EncodeToGroup allows arbitrary input to be mapped non-uniformly to points in the Group.
backendEncodeToGroup(p, input, dst) == newPoint(p, encodeXMD(input, dst))

\* HashToScalar: the field element is reduced modulo ScalarField.prime; the
\* Scalar returned refers to g.Curve.field for the NIST groups
backendHashToScalar(p, input, dst) ==
    [typ |-> ScalarType(p), curve |-> CurveOf(p),
     field |-> IF p.kind = "nist" THEN "Curve.field" ELSE "ScalarField",
     v |-> HashToFieldXMD(input, dst)]

\* NewScalar returns a new, empty, scalar: newScalar(&g.ScalarField)
backendNewScalar(p) ==
    [typ |-> ScalarType(p), curve |-> CurveOf(p), field |-> "ScalarField", v |-> Mul(0)]

\* NewElement returns the identity point (point at infinity).
backendNewElement(p) == newPoint(p, Mul(0))

\* Base returns the group's base point a.k.a. canonical generator.
backendBase(p) == newPoint(p, Mul(1))

----------------------------------------------------------------------------
(* fmt.Sprintf(dstfmt, app, version, g, ciphersuite) *)

Digit(d) ==
    CASE d = 0 -> "0" [] d = 1 -> "1" [] d = 2 -> "2" [] d = 3 -> "3" [] d = 4 -> "4"
      [] d = 5 -> "5" [] d = 6 -> "6" [] d = 7 -> "7" [] d = 8 -> "8" [] d = 9 -> "9"

RECURSIVE Decimal(_)
Decimal(n) == IF n < 10 THEN Digit(n) ELSE Decimal(n \div 10) \o Digit(n % 10)

RECURSIVE PadZero(_, _)
PadZero(s, width) == IF Len(s) >= width THEN s ELSE PadZero("0" \o s, width)

\* the verb %02d
Fmt02d(n) == PadZero(Decimal(n), 2)

\* dstfmt = "%s-V%02d-CS%02d-%s"
dstfmt(app, version, id, cs) ==
    app \o "-V" \o Fmt02d(version) \o "-CS" \o Fmt02d(id) \o "-" \o cs

----------------------------------------------------------------------------
(* The top-level Group API, called by a single caller *)

MaxApiCalls == 2
MaxDstLen == 17

Apps == {"", "app"}
Versions == {0, 1, 9, 10, 99, 100, 255}
Inputs == {"", "msg"}

RECURSIVE DstOfLen(_)
DstOfLen(n) == IF n = 0 THEN "" ELSE "d" \o DstOfLen(n - 1)

\* the lengths checkDST tells apart, and their neighbours
DstLens == {minLength, minLength + 1, recommendedMinLength - 1, recommendedMinLength, MaxDstLen}

DSTs == {DstOfLen(n) : n \in DstLens}

\* the outcome of a call: where it stopped, the panic value if any, the string
\* or value returned, and the backend method that produced it
Out(r, stage, fault, str, val, callee) ==
    [reg |-> r, stage |-> stage, fault |-> fault, str |-> str, val |-> val, callee |-> callee]

\* a method called through a nil internal.Group
NilCall(r) == Out(r, "backend", panicNilDeref, "", NoValue, "none")

\* what follows g.get() in every method: the panic of get, or the backend call
\* (str and val are what the backend method returns, used on that path only)
WithBackend(q, callee, str, val) ==
    IF q.fault # NoFault THEN Out(q.reg, "get", q.fault, "", NoValue, "none")
    ELSE IF q.p = Nil THEN NilCall(q.reg)
    ELSE Out(q.reg, "done", NoFault, str, val, callee)

\* MakeDST builds a domain separation tag in the form of
\* <app>-V<version>-CS<id>-<hash-to-curve-ID>
MakeDST(r, g, app, version) ==
    LET q == get(r, g)
    IN  WithBackend(q, "Ciphersuite", dstfmt(app, version, g, Ciphersuite(q.reg, q.p)), NoValue)

NewScalar(r, g) ==
    LET q == get(r, g) IN WithBackend(q, "NewScalar", "", backendNewScalar(q.p))

\* checkDST: a zero-length DST panics, a short one does not
checkDSTStrict(dst) == IF Len(dst) < recommendedMinLength THEN errZeroLenDST ELSE NoFault

checkDST(dst) ==
    IF Len(dst) < recommendedMinLength
      THEN IF Len(dst) = minLength THEN errZeroLenDST ELSE NoFault
      ELSE NoFault

AfterCheckDST(r, dst, o) ==
    IF checkDST(dst) # NoFault
      THEN Out(r, "checkDST", checkDST(dst), "", NoValue, "none")
      ELSE o

\* a HashToGroup whose first call on a group maps the input non-uniformly
HashToGroupFirstEncodes(r, g, input, dst) ==
    LET q == get(r, g)
    IN  AfterCheckDST(r, dst, WithBackend(q, "HashToGroup", "",
            IF g \in Slots /\ r.once[g].done THEN backendHashToGroup(q.p, input, dst)
            ELSE backendEncodeToGroup(q.p, input, dst)))

HashToGroup(r, g, input, dst) ==
    LET q == get(r, g)
    IN  AfterCheckDST(r, dst, WithBackend(q, "HashToGroup", "", backendHashToGroup(q.p, input, dst)))

\* EncodeToGroup: newPoint(g.get().HashToGroup(input, dst))
EncodeToGroup(r, g, input, dst) ==
    LET q == get(r, g)
    IN  AfterCheckDST(r, dst, WithBackend(q, "HashToGroup", "", backendHashToGroup(q.p, input, dst)))

HashToScalar(r, g, input, dst) ==
    LET q == get(r, g)
    IN  AfterCheckDST(r, dst, WithBackend(q, "HashToScalar", "", backendHashToScalar(q.p, input, dst)))

ApiRecord(op, g, app, version, input, dst, o) ==
    [op |-> op, g |-> g, app |-> app, version |-> version, input |-> input, dst |-> dst,
     stage |-> o.stage, fault |-> o.fault, str |-> o.str, val |-> o.val, callee |-> o.callee]

ApiStep(op, g, app, version, input, dst, o) ==
    /\ ncalls < MaxApiCalls
    /\ ncalls' = ncalls + 1
    /\ api' = ApiRecord(op, g, app, version, input, dst, o)
    /\ SetReg(o.reg)
    /\ UNCHANGED <<th, elem, enc, js, mem>>

ApiMakeDST ==
    \E g \in GroupInputs, app \in Apps, version \in Versions :
        ApiStep("MakeDST", g, app, version, "", "", MakeDST(Reg, g, app, version))

ApiNewScalar ==
    \E g \in GroupInputs : ApiStep("NewScalar", g, "", 0, "", "", NewScalar(Reg, g))

ApiHashToGroup ==
    \E g \in GroupInputs, input \in Inputs, dst \in DSTs :
        ApiStep("HashToGroup", g, "", 0, input, dst, HashToGroup(Reg, g, input, dst))

ApiEncodeToGroup ==
    \E g \in GroupInputs, input \in Inputs, dst \in DSTs :
        ApiStep("EncodeToGroup", g, "", 0, input, dst, EncodeToGroup(Reg, g, input, dst))

ApiHashToScalar ==
    \E g \in GroupInputs, input \in Inputs, dst \in DSTs :
        ApiStep("HashToScalar", g, "", 0, input, dst, HashToScalar(Reg, g, input, dst))

NextApi ==
    \/ ApiMakeDST
    \/ ApiNewScalar
    \/ ApiHashToGroup
    \/ ApiEncodeToGroup
    \/ ApiHashToScalar

SpecApi == Init /\ [][NextApi]_vars

----------------------------------------------------------------------------
(* Elements and scalars: the backends' Add, Sub, Mult and the facade over them *)

ErrCastElement == "could not cast to same group element : wrong group ?"
ErrCastScalar == "could not cast to same group scalar : wrong group ?"
ErrParamNilPoint == "nil or empty point"
ErrParamNilScalar == "nil or empty scalar"

Backends == {ristrettoNew, edwards25519New} \cup {nistPtr(c) : c \in NistCurves}

\* the elements n*B and the scalars n of every backend
Elements == {newPoint(p, Mul(n)) : p \in Backends, n \in 0..(Order - 1)}

Scalars == {[backendNewScalar(p) EXCEPT !.v = Mul(n)] : p \in Backends, n \in 0..(Order - 1)}

\* the group law of the curve arithmetic the backends delegate to
pointAdd(a, b) == Mul((a.v.n + b.v.n) % Order)

pointSub(a, b) == Mul((a.v.n + Order - b.v.n) % Order)

pointMult(s, a) == Mul((s.v.n * a.v.n) % Order)

\* element.(*Element), element.(*Point): the type assertion of the backends in
\* the source looks at the Go type of the argument only
castOkByCurve(recv, arg) == arg.typ = recv.typ /\ arg.curve = recv.curve

castOk(recv, arg) == arg.typ = recv.typ

\* the panic value of a failed scalar assertion in Mult: panic(internal.ErrCastElement)
multCastFault == ErrCastElement

Res(x, fault) == [x |-> x, fault |-> fault]

\* an Add that subtracts
edwardsAddAsSub(e, element) ==
    IF element = NilValue THEN Res(e, ErrParamNilPoint)
    ELSE IF ~castOk(e, element) THEN Res(e, ErrCastElement)
    ELSE Res([e EXCEPT !.v = pointSub(e, element)], NoFault)

\* Element.Add / Point.Add: returns the sum, and does not change the receiver
edwardsAdd(e, element) ==
    IF element = NilValue THEN Res(e, ErrParamNilPoint)
    ELSE IF ~castOk(e, element) THEN Res(e, ErrCastElement)
    ELSE Res([e EXCEPT !.v = pointAdd(e, element)], NoFault)

\* a Point.Add that subtracts
nistAddAsSub(p, element) ==
    IF element = NilValue THEN Res(p, ErrParamNilPoint)
    ELSE IF ~castOk(p, element) THEN Res(p, ErrCastElement)
    ELSE Res([p EXCEPT !.v = pointSub(p, element)], NoFault)

nistAdd(p, element) ==
    IF element = NilValue THEN Res(p, ErrParamNilPoint)
    ELSE IF ~castOk(p, element) THEN Res(p, ErrCastElement)
    ELSE Res([p EXCEPT !.v = pointAdd(p, element)], NoFault)

\* Element.Sub / Point.Sub
edwardsSub(e, element) ==
    IF element = NilValue THEN Res(e, ErrParamNilPoint)
    ELSE IF ~castOk(e, element) THEN Res(e, ErrCastElement)
    ELSE Res([e EXCEPT !.v = pointSub(e, element)], NoFault)

\* a Sub with its operands exchanged
nistSubSwapped(p, element) ==
    IF element = NilValue THEN Res(p, ErrParamNilPoint)
    ELSE IF ~castOk(p, element) THEN Res(p, ErrCastElement)
    ELSE Res([p EXCEPT !.v = pointSub(element, p)], NoFault)

nistSub(p, element) ==
    IF element = NilValue THEN Res(p, ErrParamNilPoint)
    ELSE IF ~castOk(p, element) THEN Res(p, ErrCastElement)
    ELSE Res([p EXCEPT !.v = pointSub(p, element)], NoFault)

\* the scalar type a backend's Mult asserts
scalarTypeOf(e) ==
    CASE e.typ = "nist.Point" -> "nist.Scalar"
      [] e.typ = "edwards25519.Element" -> "edwards25519.Scalar"
      [] e.typ = "ristretto.Element" -> "ristretto.Scalar"

scalarCastOk(e, scalar) == scalar.typ = scalarTypeOf(e)

\* a Mult of the base point in place of the receiver
edwardsMultOfBase(e, scalar) ==
    IF scalar = NilValue THEN Res(e, ErrParamNilScalar)
    ELSE IF ~scalarCastOk(e, scalar) THEN Res(e, multCastFault)
    ELSE Res([e EXCEPT !.v = pointMult(scalar, backendBase(edwards25519New))], NoFault)

\* Element.Mult / Point.Mult
edwardsMult(e, scalar) ==
    IF scalar = NilValue THEN Res(e, ErrParamNilScalar)
    ELSE IF ~scalarCastOk(e, scalar) THEN Res(e, multCastFault)
    ELSE Res([e EXCEPT !.v = pointMult(scalar, e)], NoFault)

nistMult(p, scalar) ==
    IF scalar = NilValue THEN Res(p, ErrParamNilScalar)
    ELSE IF ~scalarCastOk(p, scalar) THEN Res(p, multCastFault)
    ELSE Res([p EXCEPT !.v = pointMult(scalar, p)], NoFault)

\* the Ristretto255 backend, as the specification describes every backend: an
\* operand of another backend is the cast fault of its kind
otherAdd(e, element) ==
    IF ~castOkByCurve(e, element) THEN Res(e, ErrCastElement)
    ELSE Res([e EXCEPT !.v = pointAdd(e, element)], NoFault)

otherSub(e, element) ==
    IF ~castOkByCurve(e, element) THEN Res(e, ErrCastElement)
    ELSE Res([e EXCEPT !.v = pointSub(e, element)], NoFault)

otherMult(e, scalar) ==
    IF ~(scalarCastOk(e, scalar) /\ scalar.curve = e.curve) THEN Res(e, ErrCastScalar)
    ELSE Res([e EXCEPT !.v = pointMult(scalar, e)], NoFault)

\* dispatch through the internal.Element interface
backendAdd(e, element) ==
    CASE e.typ = "edwards25519.Element" -> edwardsAdd(e, element)
      [] e.typ = "nist.Point" -> nistAdd(e, element)
      [] OTHER -> otherAdd(e, element)

backendSub(e, element) ==
    CASE e.typ = "edwards25519.Element" -> edwardsSub(e, element)
      [] e.typ = "nist.Point" -> nistSub(e, element)
      [] OTHER -> otherSub(e, element)

backendMult(e, scalar) ==
    CASE e.typ = "edwards25519.Element" -> edwardsMult(e, scalar)
      [] e.typ = "nist.Point" -> nistMult(e, scalar)
      [] OTHER -> otherMult(e, scalar)

\* Set and Equal of every backend: the cast fault for an operand of another backend
backendSet(e, element) ==
    IF ~castOkByCurve(e, element) THEN Res(e, ErrCastElement)
    ELSE Res([e EXCEPT !.v = element.v], NoFault)

backendEqual(e, element) ==
    IF ~castOkByCurve(e, element) THEN [eq |-> FALSE, fault |-> ErrCastElement]
    ELSE [eq |-> e.v = element.v, fault |-> NoFault]

Identity(e) == [e EXCEPT !.v = Mul(0)]

\* The facade: a nil operand is the identity for Add and Subtract and zero for
\* Multiply; otherwise the backend operates and the receiver takes the result
facadeAddForwardNil(e, element) == backendAdd(e, element)

facadeAdd(e, element) ==
    IF element = NilValue THEN Res(e, NoFault) ELSE backendAdd(e, element)

facadeSubtract(e, element) ==
    IF element = NilValue THEN Res(e, NoFault) ELSE backendSub(e, element)

facadeMultiply(e, scalar) ==
    IF scalar = NilValue THEN Res(Identity(e), NoFault) ELSE backendMult(e, scalar)

facadeSet(e, element) ==
    IF element = NilValue THEN Res(Identity(e), NoFault) ELSE backendSet(e, element)

facadeEqual(e, element) ==
    IF element = NilValue THEN [eq |-> FALSE, fault |-> NoFault] ELSE backendEqual(e, element)

\* Negate and Double change the receiver in place; the scalars add modulo the
\* order of the group
facadeNegate(e) == Res([e EXCEPT !.v = Mul((Order - e.v.n) % Order)], NoFault)

facadeDouble(e) == Res([e EXCEPT !.v = pointAdd(e, e)], NoFault)

scalarAdd(a, b) == [a EXCEPT !.v = Mul((a.v.n + b.v.n) % Order)]

\* IsIdentity returns whether the element is the Group's identity element.
IsIdentity(e) == e.v = Mul(0)

\* the receiver is any element of any backend
InitElem ==
    /\ RegInit
    /\ th = [t \in Threads |-> IdleThread]
    /\ ncalls = 0
    /\ api = NoApi
    /\ enc = NoEnc
    /\ js = NoJs
    /\ mem = NoMem
    /\ \E x \in Elements : elem = [NoElem EXCEPT !.x = x, !.old = x]

ElemStep(op, arg, r, eq) ==
    /\ elem' = [op |-> op, x |-> r.x, old |-> elem.x, arg |-> arg, fault |-> r.fault, eq |-> eq]
    /\ UNCHANGED <<once, groups, nistOnce, nistVar, inits, th, ncalls, api, enc, js, mem>>

ElemAdd == \E arg \in Elements \cup {NilValue} : ElemStep("Add", arg, facadeAdd(elem.x, arg), FALSE)

ElemSubtract ==
    \E arg \in Elements \cup {NilValue} :
        ElemStep("Subtract", arg, facadeSubtract(elem.x, arg), FALSE)

ElemMultiply ==
    \E arg \in Scalars \cup {NilValue} :
        ElemStep("Multiply", arg, facadeMultiply(elem.x, arg), FALSE)

ElemSet == \E arg \in Elements \cup {NilValue} : ElemStep("Set", arg, facadeSet(elem.x, arg), FALSE)

ElemEqual ==
    \E arg \in Elements \cup {NilValue} :
        LET q == facadeEqual(elem.x, arg) IN ElemStep("Equal", arg, Res(elem.x, q.fault), q.eq)

ElemNegate == ElemStep("Negate", NilValue, facadeNegate(elem.x), FALSE)

ElemDouble == ElemStep("Double", NilValue, facadeDouble(elem.x), FALSE)

NextElem ==
    \/ ElemAdd
    \/ ElemSubtract
    \/ ElemMultiply
    \/ ElemSet
    \/ ElemEqual
    \/ ElemNegate
    \/ ElemDouble

SpecElem == InitElem /\ [][NextElem]_vars

----------------------------------------------------------------------------
(* Encodings: Bytes / Decode of the backends and Encode / Decode above them *)

edwards25519ElementLength == 32
ristrettoElementLength == 32

ErrIdentity == "infinity/identity point"
errEdwardsEncoding == "edwards25519: invalid point encoding"
errRistrettoEncoding == "invalid Ristretto encoding"
errNistEncoding == "invalid point encoding"
errScalarEncoding == "invalid scalar encoding"
errScalarLength == "invalid scalar length"

\* a length without the sign byte
pointLenNoSignByte(bitLen) == (bitLen + 7) \div 8

\* pointLen: 1 + the byte length of the field
pointLen(bitLen) == 1 + ((bitLen + 7) \div 8)

\* ElementLength returns the byte size of an encoded element.
ElementLengthOf(typ, curve) ==
    CASE typ = "nist.Point" -> pointLen(nistInit(curve).fieldBits)
      [] typ = "edwards25519.Element" -> edwards25519ElementLength
      [] typ = "ristretto.Element" -> ristrettoElementLength

\* the byte size of an encoded scalar: the byte length of the group order
ScalarLengthOf(typ, curve) ==
    CASE typ = "nist.Scalar" -> (nistInit(curve).fieldBits + 7) \div 8
      [] typ = "edwards25519.Scalar" -> edwards25519ElementLength
      [] typ = "ristretto.Scalar" -> ristrettoElementLength

Zeros(n) == [i \in 1..n |-> 0]

\* the canonical point encodings of the curve libraries, for the point n*B:
\* Edwards25519 encodes the identity as 01 00 .. 00, Ristretto255 as 00 .. 00,
\* and the NIST points are a sign byte 02 / 03 followed by the big-endian
\* x coordinate (02 00 .. 00 for the point at infinity)
edwardsPointBytes(v) == <<v.n + 1>> \o Zeros(edwards25519ElementLength - 1)

ristrettoPointBytes(v) == <<v.n>> \o Zeros(ristrettoElementLength - 1)

nistPointBytes(curve, v) ==
    <<2 + (v.n % 2)>> \o Zeros(pointLen(nistInit(curve).fieldBits) - 2) \o <<v.n>>

Decoded(v, err) == [v |-> v, err |-> err]

\* edwards25519.Point.SetBytes: any canonical encoding, the identity included
edwardsSetBytes(in) ==
    IF /\ Len(in) = edwards25519ElementLength
       /\ in[1] \in 1..Order
       /\ \A i \in 2..Len(in) : in[i] = 0
      THEN Decoded(Mul(in[1] - 1), NoFault)
      ELSE Decoded(Mul(0), errEdwardsEncoding)

\* the decoding of the NIST point type: the length of the curve, a sign byte
\* that matches, a coordinate of the curve, and not the point at infinity
nistPointDecode(curve, in) ==
    IF /\ Len(in) = pointLen(nistInit(curve).fieldBits)
       /\ in[Len(in)] \in 1..(Order - 1)
       /\ in[1] = 2 + (in[Len(in)] % 2)
       /\ \A i \in 2..(Len(in) - 1) : in[i] = 0
      THEN Decoded(Mul(in[Len(in)]), NoFault)
      ELSE Decoded(Mul(0), errNistEncoding)

\* the decoding of the Ristretto255 element: 32 canonical bytes, not the identity
ristrettoDecodeBytes(in) ==
    IF Len(in) = 0 THEN Decoded(Mul(0), ErrParamNilPoint)
    ELSE IF /\ Len(in) = ristrettoElementLength
            /\ in[1] \in 0..(Order - 1)
            /\ \A i \in 2..Len(in) : in[i] = 0
      THEN IF in[1] = 0 THEN Decoded(Mul(0), ErrIdentity)
                        ELSE Decoded(Mul(in[1]), NoFault)
      ELSE Decoded(Mul(0), errRistrettoEncoding)

\* the result of a Decode: the receiver afterwards and the error returned
DecRes(x, err) == [x |-> x, err |-> err]

\* Element.Bytes / Point.Bytes: the compressed byte encoding of the element
edwardsBytes(e) == edwardsPointBytes(e.v)

nistBytes(p) == nistPointBytes(p.curve, p.v)

\* a Decode that checks the input and leaves the receiver as it was
edwardsDecodeKeepReceiver(e, in) ==
    IF Len(in) = 0 THEN DecRes(e, ErrParamNilPoint)
    ELSE LET d == edwardsSetBytes(in) IN
         IF d.err # NoFault THEN DecRes(e, "decoding element : " \o d.err)
         ELSE IF d.v = Mul(0) THEN DecRes(e, ErrIdentity)
         ELSE DecRes(e, NoFault)

\* a Decode without the identity check
edwardsDecodeAcceptIdentity(e, in) ==
    IF Len(in) = 0 THEN DecRes(e, ErrParamNilPoint)
    ELSE LET d == edwardsSetBytes(in) IN
         IF d.err # NoFault THEN DecRes(e, "decoding element : " \o d.err)
         ELSE DecRes([e EXCEPT !.v = d.v], NoFault)

\* a Decode that answers a zero-length input with no error
edwardsDecodeNilError(e, in) ==
    IF Len(in) = 0 THEN DecRes(e, NoFault)
    ELSE LET d == edwardsSetBytes(in) IN
         IF d.err # NoFault THEN DecRes(e, "decoding element : " \o d.err)
         ELSE IF d.v = Mul(0) THEN DecRes([e EXCEPT !.v = d.v], ErrIdentity)
         ELSE DecRes([e EXCEPT !.v = d.v], NoFault)

\* edwards25519 Element.Decode: decodes the input and sets the current element
\* to its value; SetBytes has set the receiver when the identity is refused
edwardsDecode(e, in) ==
    IF Len(in) = 0 THEN DecRes(e, ErrParamNilPoint)
    ELSE LET d == edwardsSetBytes(in) IN
         IF d.err # NoFault THEN DecRes(e, "decoding element : " \o d.err)
         ELSE IF d.v = Mul(0) THEN DecRes([e EXCEPT !.v = d.v], ErrIdentity)
         ELSE DecRes([e EXCEPT !.v = d.v], NoFault)

\* Point.Decode sets p to the value of the decoded input, and returns p.
nistDecode(p, in) ==
    LET d == nistPointDecode(p.curve, in) IN
    IF d.err # NoFault THEN DecRes(p, d.err)
    ELSE DecRes([p EXCEPT !.v = d.v], NoFault)

ristrettoDecode(e, in) ==
    LET d == ristrettoDecodeBytes(in) IN
    IF d.err # NoFault THEN DecRes(e, d.err)
    ELSE DecRes([e EXCEPT !.v = d.v], NoFault)

\* dispatch through the internal.Element interface
backendBytes(e) ==
    CASE e.typ = "edwards25519.Element" -> edwardsBytes(e)
      [] e.typ = "nist.Point" -> nistBytes(e)
      [] OTHER -> ristrettoPointBytes(e.v)

backendDecode(e, in) ==
    CASE e.typ = "edwards25519.Element" -> edwardsDecode(e, in)
      [] e.typ = "nist.Point" -> nistDecode(e, in)
      [] OTHER -> ristrettoDecode(e, in)

----------------------------------------------------------------------------
(* Scalars' encodings, and Encode / Decode / UnmarshalBinary of the top level *)

IsElement(x) == x.typ \in {"nist.Point", "edwards25519.Element", "ristretto.Element"}

\* the fixed-length encoding of the scalar n: little-endian for Edwards25519
\* and Ristretto255, big-endian for the NIST groups
scalarBytes(s) ==
    IF s.typ = "nist.Scalar"
      THEN Zeros(ScalarLengthOf(s.typ, s.curve) - 1) \o <<s.v.n>>
      ELSE <<s.v.n>> \o Zeros(ScalarLengthOf(s.typ, s.curve) - 1)

\* Scalar.Decode: a zero-length input, a wrong length and a value that is not
\* reduced are errors
scalarDecode(s, in) ==
    LET l == ScalarLengthOf(s.typ, s.curve)
        at == IF s.typ = "nist.Scalar" THEN l ELSE 1
    IN  IF Len(in) = 0 THEN DecRes(s, ErrParamNilScalar)
        ELSE IF Len(in) # l THEN DecRes(s, errScalarLength)
        ELSE IF in[at] \in 0..(Order - 1) /\ \A i \in (1..l) \ {at} : in[i] = 0
          THEN DecRes([s EXCEPT !.v = Mul(in[at])], NoFault)
          ELSE DecRes(s, errScalarEncoding)

\* Encode returns the compressed byte encoding of the element / scalar
facadeEncode(x) == IF IsElement(x) THEN backendBytes(x) ELSE scalarBytes(x)

\* ElementLength / ScalarLength of the group of x
facadeLength(x) ==
    IF IsElement(x) THEN ElementLengthOf(x.typ, x.curve) ELSE ScalarLengthOf(x.typ, x.curve)

WrapErr(prefix, d) ==
    IF d.err = NoFault THEN d ELSE DecRes(d.x, prefix \o d.err)

\* Decode sets the receiver to the decoding of the input, and returns an error
\* where the backend does
facadeDecode(x, in) ==
    IF IsElement(x) THEN WrapErr("element Decode: ", backendDecode(x, in))
                    ELSE WrapErr("scalar Decode: ", scalarDecode(x, in))

facadeUnmarshalBinary(x, in) ==
    IF IsElement(x) THEN WrapErr("element UnmarshalBinary: ", backendDecode(x, in))
                    ELSE WrapErr("scalar UnmarshalBinary: ", scalarDecode(x, in))

\* inputs of Decode: nil, every encoding of every backend, and malformed ones
BadEncodings ==
    { <<4>> \o Zeros(pointLen(nistInit("p256").fieldBits) - 1),
      <<2>> \o Zeros(pointLen(nistInit("p256").fieldBits) - 2) \o <<Order>>,
      <<3>> \o Zeros(pointLen(nistInit("p256").fieldBits) - 2) \o <<2>>,
      <<Order + 1>> \o Zeros(edwards25519ElementLength - 1),
      <<1, 1>> \o Zeros(edwards25519ElementLength - 2),
      <<1>> }

DecodeInputs ==
    {<<>>} \cup {backendBytes(e) : e \in Elements} \cup {scalarBytes(s) : s \in Scalars}
           \cup BadEncodings

\* the receiver is any element or scalar of any backend
InitEnc ==
    /\ RegInit
    /\ th = [t \in Threads |-> IdleThread]
    /\ ncalls = 0
    /\ api = NoApi
    /\ elem = NoElem
    /\ js = NoJs
    /\ mem = NoMem
    /\ \E x \in Elements \cup Scalars : enc = [NoEnc EXCEPT !.x = x, !.old = x]

EncStep(op, x, in, out, err, len) ==
    /\ enc' = [op |-> op, x |-> x, old |-> enc.x, input |-> in, out |-> out, err |-> err,
               len |-> len]
    /\ UNCHANGED <<once, groups, nistOnce, nistVar, inits, th, ncalls, api, elem, js, mem>>

EncEncode == EncStep("Encode", enc.x, <<>>, facadeEncode(enc.x), NoFault, facadeLength(enc.x))

EncDecode ==
    \E in \in DecodeInputs :
        LET d == facadeDecode(enc.x, in) IN EncStep("Decode", d.x, in, <<>>, d.err, 0)

EncUnmarshalBinary ==
    \E in \in DecodeInputs :
        LET d == facadeUnmarshalBinary(enc.x, in)
        IN  EncStep("UnmarshalBinary", d.x, in, <<>>, d.err, 0)

NextEnc ==
    \/ EncEncode
    \/ EncDecode
    \/ EncUnmarshalBinary

SpecEnc == InitEnc /\ [][NextEnc]_vars

----------------------------------------------------------------------------------------------------------------------------------------
(* Elements in memory: variables hold *ecc.Element, an ecc.Element holds the
   backend element, a backend element holds the pointer to its point *)

MaxPts == 4
MaxObjs == 3

PtAddrs == 1..MaxPts
ObjAddrs == 1..MaxObjs

\* a point or an element that is not allocated
FreePt == [k |-> "free", n |-> 0, count |-> 0, input |-> "", dst |-> ""]
FreeObj == [typ |-> "free", curve |-> "free", pt |-> 0]

\* a nil internal.Element
NilRef == [typ |-> "nil", curve |-> "nil", pt |-> 0]

\* the backend element b with the point it refers to, as a value
Deref(m, b) ==
    IF b = NilRef THEN NilValue
    ELSE [typ |-> b.typ, curve |-> b.curve, field |-> "none", v |-> m.pts[b.pt]]

\* the value of the element a variable refers to
ValOf(m, name) == Deref(m, m.objs[m[name]])

\* allocation: the first address not in use
FreshPt(m) ==
    CHOOSE a \in PtAddrs : m.pts[a] = FreePt /\ \A b \in 1..(a - 1) : m.pts[b] # FreePt

FreshObj(m) ==
    CHOOSE a \in ObjAddrs : m.objs[a] = FreeObj /\ \A b \in 1..(a - 1) : m.objs[b] # FreeObj

\* what the garbage collector does: an element no variable refers to and a
\* point no element refers to are free again. Addresses are names only: what
\* stays is renamed in the order x, c, r, so that two memories that differ in
\* the names alone are one state
Collect(m) ==
    LET px == m.objs[m.x].pt
        pc == IF m.c = 0 THEN 0 ELSE m.objs[m.c].pt
        pr == m.r.pt
        oc == IF m.c = 0 THEN 0 ELSE IF m.c = m.x THEN 1 ELSE 2
        qc == IF pc = 0 THEN 0 ELSE IF pc = px THEN 1 ELSE 2
        qr == IF pr = 0 THEN 0
              ELSE IF pr = px THEN 1
              ELSE IF pr = pc THEN qc
              ELSE IF qc = 2 THEN 3 ELSE 2
    IN  [m EXCEPT
            !.x = 1,
            !.c = oc,
            !.r = IF m.r = NilRef THEN NilRef ELSE [m.r EXCEPT !.pt = qr],
            !.objs = [a \in ObjAddrs |->
                         IF a = 1 THEN [m.objs[m.x] EXCEPT !.pt = 1]
                         ELSE IF a = oc THEN [m.objs[m.c] EXCEPT !.pt = qc]
                         ELSE FreeObj],
            !.pts = [a \in PtAddrs |->
                        IF a = 1 THEN m.pts[px]
                        ELSE IF a = qc THEN m.pts[pc]
                        ELSE IF a = qr THEN m.pts[pr]
                        ELSE FreePt],
            !.last.ret = IF m.last.ret = 0 THEN 0 ELSE IF m.last.ret = m.x THEN 1 ELSE oc]

BRes(m, ret, fault) == [m |-> m, ret |-> ret, fault |-> fault]

\* a backend operation that writes its result into the point of the receiver
newElementInPlace(m, e, res) ==
    IF res.fault # NoFault THEN BRes(m, NilRef, res.fault)
    ELSE BRes([m EXCEPT !.pts[e.pt] = res.x.v], e, NoFault)

\* &Element{edwards25519.NewIdentityPoint().Add(..)} and
\* p.newPoint(p.group.NewPoint().Add(..)): the result goes into a point made
\* for it, in a new element of the receiver's group
newElement(m, e, res) ==
    IF res.fault # NoFault THEN BRes(m, NilRef, res.fault)
    ELSE LET a == FreshPt(m)
         IN  BRes([m EXCEPT !.pts[a] = res.x.v],
                  [typ |-> e.typ, curve |-> e.curve, pt |-> a], NoFault)

\* Add, Sub and Mult of the backend elements
memAdd(m, e, element) == newElement(m, e, backendAdd(Deref(m, e), Deref(m, element)))

memSub(m, e, element) == newElement(m, e, backendSub(Deref(m, e), Deref(m, element)))

memMult(m, e, scalar) == newElement(m, e, backendMult(Deref(m, e), scalar))

\* a Copy that hands out the point of the receiver
edwardsCopyShared(m, e) == BRes(m, e, NoFault)

\* Element.Copy: a new point set from the bytes of the receiver's
edwardsCopy(m, e) ==
    LET d == edwardsSetBytes(edwardsPointBytes(m.pts[e.pt]))
    IN  IF d.err # NoFault THEN BRes(m, NilRef, d.err)
        ELSE newElement(m, e, Res([Deref(m, e) EXCEPT !.v = d.v], NoFault))

\* Point.Copy: p.newPoint(p.point.Copy())
nistCopy(m, p) == newElement(m, p, Res(Deref(m, p), NoFault))

ristrettoCopy(m, e) == newElement(m, e, Res(Deref(m, e), NoFault))

backendCopy(m, e) ==
    CASE e.typ = "edwards25519.Element" -> edwardsCopy(m, e)
      [] e.typ = "nist.Point" -> nistCopy(m, e)
      [] OTHER -> ristrettoCopy(m, e)

\* Set of the backends: the point of the receiver takes the value of the argument
memSet(m, e, element) ==
    LET res == backendSet(Deref(m, e), Deref(m, element))
    IN  IF res.fault # NoFault THEN BRes(m, NilRef, res.fault)
        ELSE BRes([m EXCEPT !.pts[e.pt] = res.x.v], e, NoFault)

\* The facade: the ecc.Element keeps the element the backend returned and the
\* method returns its receiver
FRes(m, ret, fault) == [m |-> m, ret |-> ret, fault |-> fault]

Keep(m, o, b) ==
    IF b.fault # NoFault THEN FRes(m, 0, b.fault)
    ELSE FRes([b.m EXCEPT !.objs[o] = b.ret], o, NoFault)

\* a Copy that returns its receiver
memFacadeCopySame(m, o) == FRes(m, o, NoFault)

\* Copy returns a copy of the element: a new ecc.Element around the backend's copy
memFacadeCopy(m, o) ==
    LET b == backendCopy(m, m.objs[o])
    IN  IF b.fault # NoFault THEN FRes(m, 0, b.fault)
        ELSE LET n == FreshObj(b.m) IN FRes([b.m EXCEPT !.objs[n] = b.ret], n, NoFault)

memFacadeAdd(m, o, arg) ==
    IF arg = 0 THEN FRes(m, o, NoFault) ELSE Keep(m, o, memAdd(m, m.objs[o], m.objs[arg]))

memFacadeDouble(m, o) == Keep(m, o, memAdd(m, m.objs[o], m.objs[o]))

memFacadeSet(m, o, arg) ==
    IF arg = 0 THEN FRes([m EXCEPT !.pts[m.objs[o].pt] = Mul(0)], o, NoFault)
    ELSE LET b == memSet(m, m.objs[o], m.objs[arg])
         IN  IF b.fault # NoFault THEN FRes(m, 0, b.fault) ELSE FRes(b.m, o, NoFault)

\* NewElement of the group of o: a new ecc.Element around the identity
memNewElement(m, o) ==
    LET a == FreshPt(m)
        n == FreshObj(m)
    IN  FRes([m EXCEPT !.pts[a] = Mul(0),
                       !.objs[n] = [typ |-> m.objs[o].typ, curve |-> m.objs[o].curve, pt |-> a]],
             n, NoFault)

ElemNames == {"x", "c"}

\* the variables that refer to an element
Bound(m) == {name \in ElemNames : m[name] # 0}

\* x is any element of any backend; no other element exists yet
InitMem ==
    /\ RegInit
    /\ th = [t \in Threads |-> IdleThread]
    /\ ncalls = 0
    /\ api = NoApi
    /\ elem = NoElem
    /\ enc = NoEnc
    /\ js = NoJs
    /\ \E e \in Elements :
          mem = [NoMem EXCEPT
                    !.x = 1,
                    !.objs = [a \in ObjAddrs |->
                                 IF a = 1 THEN [typ |-> e.typ, curve |-> e.curve, pt |-> 1]
                                 ELSE FreeObj],
                    !.pts = [a \in PtAddrs |-> IF a = 1 THEN e.v ELSE FreePt]]

Last(op, recv, arg, ret, fault) ==
    [op |-> op, recv |-> recv, arg |-> arg, ret |-> ret, fault |-> fault]

MemStep(m, r, last) ==
    /\ mem' = Collect([m EXCEPT !.r = r, !.last = last])
    /\ UNCHANGED <<once, groups, nistOnce, nistVar, inits, th, ncalls, api, elem, enc, js>>

\* c = x.Copy()
MemCopy ==
    \E f \in {memFacadeCopy(mem, mem.x)} :
        MemStep([f.m EXCEPT !.c = f.ret], NilRef, Last("Copy", "x", "none", f.ret, f.fault))

\* c = NewElement()
MemNewElement ==
    \E f \in {memNewElement(mem, mem.x)} :
        MemStep([f.m EXCEPT !.c = f.ret], NilRef,
                Last("NewElement", "none", "none", f.ret, f.fault))

\* a.Set(b), a.Set(nil)
MemSet ==
    \E a \in Bound(mem), b \in Bound(mem) \cup {"nil"} :
        LET f == memFacadeSet(mem, mem[a], IF b = "nil" THEN 0 ELSE mem[b])
        IN  MemStep(f.m, NilRef, Last("Set", a, b, f.ret, f.fault))

\* a.Add(b), a.Add(nil)
MemAdd ==
    \E a \in Bound(mem), b \in Bound(mem) \cup {"nil"} :
        LET f == memFacadeAdd(mem, mem[a], IF b = "nil" THEN 0 ELSE mem[b])
        IN  MemStep(f.m, NilRef, Last("Add", a, b, f.ret, f.fault))

\* a.Double()
MemDouble ==
    \E a \in Bound(mem) :
        LET f == memFacadeDouble(mem, mem[a])
        IN  MemStep(f.m, NilRef, Last("Double", a, "none", f.ret, f.fault))

\* r = a.Add(b), r = a.Sub(b) on the backend elements of a and b; r is dropped
\* by the next call
MemBackendAdd ==
    \E a \in Bound(mem), b \in Bound(mem) :
        LET f == memAdd(mem, mem.objs[mem[a]], mem.objs[mem[b]])
        IN  MemStep(f.m, f.ret, Last("backend.Add", a, b, 0, f.fault))

MemBackendSub ==
    \E a \in Bound(mem), b \in Bound(mem) :
        LET f == memSub(mem, mem.objs[mem[a]], mem.objs[mem[b]])
        IN  MemStep(f.m, f.ret, Last("backend.Sub", a, b, 0, f.fault))

\* r = a.Mult(s) on the backend element of a, s a scalar of its group
MemBackendMult ==
    \E a \in Bound(mem), s \in Scalars :
        /\ scalarCastOk(ValOf(mem, a), s) /\ s.curve = ValOf(mem, a).curve
        /\ LET f == memMult(mem, mem.objs[mem[a]], s)
           IN  MemStep(f.m, f.ret, Last("backend.Mult", a, "scalar", 0, f.fault))

NextMem ==
    \/ MemCopy
    \/ MemNewElement
    \/ MemSet
    \/ MemAdd
    \/ MemDouble
    \/ MemBackendAdd
    \/ MemBackendSub
    \/ MemBackendMult

SpecMem == InitMem /\ [][NextMem]_vars

----------------
(* JSONReGetGroup: the group identifier found in a JSON encoding *)

ErrDecodingInvalidJSONEncoding == "invalid JSON encoding"
ErrInvalidGroup == "invalid group identifier"
errAtoiSyntax == "invalid syntax"
errAtoiRange == "value out of range"

\* a string is the sequence of its characters
DigitChars == {"0", "1", "2", "3", "4", "5", "6", "7", "8", "9"}
\* no key argument
NoKey == [given |-> FALSE, k |-> <<>>]

LetterChars == {"a", "b", "d", "g", "l", "o", "p", "r", "u", "G", "O"}

\* the class \w of the regular expression
IsWord(c) == c \in DigitChars \cup LetterChars \cup {"_"}

\* fmt.Sprintf(`%q:%s`, regexp.QuoteMeta("group"), catch): the literal part
keyPattern == <<"\"", "g", "r", "o", "u", "p", "\"", ":">>

\* the expression "group":(\w+) matches at position i of s
MatchesAt(s, i) ==
    /\ i + Len(keyPattern) <= Len(s)
    /\ SubSeq(s, i, i + Len(keyPattern) - 1) = keyPattern
    /\ IsWord(s[i + Len(keyPattern)])

RECURSIVE WordRun(_, _)
\* the longest run of \w from position i
WordRun(s, i) == IF i <= Len(s) /\ IsWord(s[i]) THEN <<s[i]>> \o WordRun(s, i + 1) ELSE <<>>

\* re.FindStringSubmatch(s): the leftmost match and its group, or nothing
FindStringSubmatch(s) ==
    IF \E i \in 1..Len(s) : MatchesAt(s, i)
      THEN LET i == CHOOSE k \in 1..Len(s) :
                        MatchesAt(s, k) /\ \A j \in 1..(k - 1) : ~MatchesAt(s, j)
               w == WordRun(s, i + Len(keyPattern))
           IN  <<keyPattern \o w, w>>
      ELSE <<>>

\* a jsonReGetField that does not look at the number of matches
jsonReGetFieldUnchecked(s) ==
    LET matches == FindStringSubmatch(s) IN
    IF Len(matches) < 2 THEN [f |-> <<>>, err |-> NoFault, fault |-> panicIndex]
    ELSE [f |-> matches[2], err |-> NoFault, fault |-> NoFault]

jsonReGetField(s) ==
    LET matches == FindStringSubmatch(s) IN
    IF Len(matches) # 2
      THEN [f |-> <<>>, err |-> ErrDecodingInvalidJSONEncoding, fault |-> NoFault]
      ELSE [f |-> matches[2], err |-> NoFault, fault |-> NoFault]

DigitValue(c) ==
    CASE c = "0" -> 0 [] c = "1" -> 1 [] c = "2" -> 2 [] c = "3" -> 3 [] c = "4" -> 4
      [] c = "5" -> 5 [] c = "6" -> 6 [] c = "7" -> 7 [] c = "8" -> 8 [] c = "9" -> 9

RECURSIVE StripZeros(_)
StripZeros(d) == IF Len(d) > 1 /\ d[1] = "0" THEN StripZeros(Tail(d)) ELSE d

RECURSIVE DigitsValue(_)
DigitsValue(d) ==
    IF Len(d) = 0 THEN 0 ELSE 10 * DigitsValue(SubSeq(d, 1, Len(d) - 1)) + DigitValue(d[Len(d)])

RECURSIVE DigitsLE(_, _)
\* a <= b for decimal numerals of the same length
DigitsLE(a, b) ==
    IF Len(a) = 0 THEN TRUE
    ELSE IF DigitValue(a[1]) # DigitValue(b[1]) THEN DigitValue(a[1]) < DigitValue(b[1])
    ELSE DigitsLE(Tail(a), Tail(b))

\* the largest int of the machine, 1<<63 - 1
MaxInt64Digits == <<"9", "2", "2", "3", "3", "7", "2", "0", "3", "6", "8", "5", "4", "7", "7", "5", "8", "0", "7">>

\* strconv.Atoi on a token of \w characters: a syntax error unless every
\* character is a digit, a range error above the largest int; the value is
\* kept as a number up to four digits and as "more than that" beyond
Atoi(f) ==
    IF Len(f) = 0 \/ \E i \in 1..Len(f) : f[i] \notin DigitChars
      THEN [err |-> errAtoiSyntax, big |-> FALSE, n |-> 0]
      ELSE LET d == StripZeros(f) IN
           IF \/ Len(d) > Len(MaxInt64Digits)
              \/ (Len(d) = Len(MaxInt64Digits) /\ ~DigitsLE(d, MaxInt64Digits))
             THEN [err |-> errAtoiRange, big |-> FALSE, n |-> 0]
             ELSE IF Len(d) > 4 THEN [err |-> NoFault, big |-> TRUE, n |-> 0]
             ELSE [err |-> NoFault, big |-> FALSE, n |-> DigitsValue(d)]

JsRes(group, err, fault) == [group |-> group, err |-> err, fault |-> fault]

\* JSONReGetGroup attempts to find the group JSON encoding in s.
JSONReGetGroup(s) ==
    LET r == jsonReGetField(s) IN
    IF r.fault # NoFault THEN JsRes(0, NoFault, r.fault)
    ELSE IF r.err # NoFault THEN JsRes(0, r.err, NoFault)
    ELSE LET a == Atoi(r.f) IN
         IF a.err # NoFault
           THEN JsRes(0, "failed to read Group: strconv.Atoi: " \o a.err, NoFault)
         ELSE IF a.big \/ a.n < 0 \/ a.n > 63 THEN JsRes(0, ErrInvalidGroup, NoFault)
         ELSE LET c == a.n % 256 IN
              IF ~Available(c) THEN JsRes(0, ErrInvalidGroup, NoFault)
                               ELSE JsRes(c, NoFault, NoFault)

\* the inputs: what precedes the key, the key as written, the value, what follows
JsonPrefixes ==
    { <<"{">>,
      <<"{", "\"", "g", "r", "o", "u", "p", "\"", ":", "-", "1", ",">>,
      <<"{", "\"", "o", "l", "d", "G", "r", "o", "u", "p", "\"", ":", "1", ",">>,
      <<"{", "\"", "g", "r", "o", "u", "p", "\"", ":", "3", ",">> }

JsonKeys ==
    { keyPattern,
      <<"\"", "g", "r", "o", "u", "p", "\"", " ", ":">>,
      <<"\"", "G", "r", "o", "u", "p", "\"", ":">> }

JsonValues ==
    { <<"0">>,
      <<"1">>,
      <<"2">>,
      <<"3">>,
      <<"6">>,
      <<"7">>,
      <<"6", "3">>,
      <<"6", "4">>,
      <<"7", "0">>,
      <<"2", "5", "5">>,
      <<"2", "5", "6">>,
      <<"2", "5", "8">>,
      <<"0", "0", "7">>,
      <<"-", "1">>,
      <<"b", "a", "d">>,
      <<"1", "a">>,
      <<"_">>,
      <<"9", "2", "2", "3", "3", "7", "2", "0", "3", "6", "8", "5", "4", "7", "7", "5", "8", "0", "7">>,
      <<"9", "2", "2", "3", "3", "7", "2", "0", "3", "6", "8", "5", "4", "7", "7", "5", "8", "0", "8">>,
      <<"9", "9", "9", "9", "9", "9", "9", "9", "9", "9", "9", "9", "9", "9", "9", "9", "9", "9", "9", "9">>,
      <<>> }

JsonSuffix == <<",", "\"", "a", "\"", ":", "1", "}">>

JsonInputs ==
    {p \o k \o v \o JsonSuffix : p \in JsonPrefixes, k \in JsonKeys, v \in JsonValues}

JsCall ==
    /\ \E s \in JsonInputs :
          LET o == JSONReGetGroup(s)
          IN  js' = [s |-> s, called |-> TRUE, group |-> o.group, err |-> o.err,
                     fault |-> o.fault, key |-> NoKey]
    /\ UNCHANGED <<once, groups, nistOnce, nistVar, inits, th, ncalls, api, elem, enc, mem>>

NextJson == JsCall

SpecJson == Init /\ [][NextJson]_vars

------------------------------------------------------------

----------------------------------------------------------------------------
(* JSONReGetGroup with the optional key argument *)

panicRegexp == "regexp: Compile: error parsing regexp: missing closing )"

\* fmt.Sprintf(`%q:%s`, key, catch): the key between quotes, then the colon
keyedPattern(key) == <<"\"">> \o key \o <<"\"", ":">>

\* regexp.MustCompile: a "(" of the key opens a group that nothing closes
CompileFault(key) ==
    IF \E i \in 1..Len(key) : key[i] = "(" THEN panicRegexp ELSE NoFault

\* one character of the expression against one character of the input: the
\* dot stands for any character
CharMatches(pc, c) == pc = "." \/ pc = c

\* the expression of regexp.QuoteMeta(key): the key as literal text
PatMatchesAtLiteral(pat, s, i) ==
    /\ i + Len(pat) <= Len(s)
    /\ SubSeq(s, i, i + Len(pat) - 1) = pat
    /\ IsWord(s[i + Len(pat)])

PatMatchesAt(pat, s, i) ==
    /\ i + Len(pat) <= Len(s)
    /\ \A j \in 1..Len(pat) : CharMatches(pat[j], s[i + j - 1])
    /\ IsWord(s[i + Len(pat)])

FindStringSubmatchKey(pat, s) ==
    IF \E i \in 1..Len(s) : PatMatchesAt(pat, s, i)
      THEN LET i == CHOOSE k \in 1..Len(s) :
                        PatMatchesAt(pat, s, k) /\ \A j \in 1..(k - 1) : ~PatMatchesAt(pat, s, j)
               w == WordRun(s, i + Len(pat))
           IN  <<SubSeq(s, i, i + Len(pat) - 1) \o w, w>>
      ELSE <<>>

jsonReGetFieldKey(key, s) ==
    IF CompileFault(key) # NoFault
      THEN [f |-> <<>>, err |-> NoFault, fault |-> CompileFault(key)]
      ELSE LET matches == FindStringSubmatchKey(keyedPattern(key), s) IN
           IF Len(matches) # 2
             THEN [f |-> <<>>, err |-> ErrDecodingInvalidJSONEncoding, fault |-> NoFault]
             ELSE [f |-> matches[2], err |-> NoFault, fault |-> NoFault]

groupKey == <<"g", "r", "o", "u", "p">>

\* reKey: the first key given if it is not empty, "group" otherwise
reKey(key) == IF key.given /\ key.k # <<>> THEN key.k ELSE groupKey

\* JSONReGetGroup(s, key...): the optional key argument overrides the default key
JSONReGetGroupKey(s, key) ==
    LET r == jsonReGetFieldKey(reKey(key), s) IN
    IF r.fault # NoFault THEN JsRes(0, NoFault, r.fault)
    ELSE IF r.err # NoFault THEN JsRes(0, r.err, NoFault)
    ELSE LET a == Atoi(r.f) IN
         IF a.err # NoFault
           THEN JsRes(0, "failed to read Group: strconv.Atoi: " \o a.err, NoFault)
         ELSE IF a.big \/ a.n < 0 \/ a.n > 63 THEN JsRes(0, ErrInvalidGroup, NoFault)
         ELSE LET c == a.n % 256 IN
              IF ~Available(c) THEN JsRes(0, ErrInvalidGroup, NoFault)
                               ELSE JsRes(c, NoFault, NoFault)

\* the keys a caller passes, and the keys written in the input
CallKeys ==
    {NoKey, [given |-> TRUE, k |-> <<>>]} \cup
    {[given |-> TRUE, k |-> k] : k \in {groupKey, <<"g", ".", "o", "u", "p">>, <<"g", "(", "o", "u", "p">>, <<"g", "a", "o", "u", "p">>}}

WrittenKeys == {groupKey, <<"g", ".", "o", "u", "p">>, <<"g", "(", "o", "u", "p">>, <<"g", "a", "o", "u", "p">>}

KeyedValues == {<<"1">>, <<"3">>, <<"6">>, <<"7", "0">>, <<"b", "a", "d">>, <<>>}

KeyedInputs ==
    {<<"{">> \o keyedPattern(k) \o v \o JsonSuffix : k \in WrittenKeys, v \in KeyedValues}

JsCallKey ==
    /\ \E s \in KeyedInputs, key \in CallKeys :
          LET o == JSONReGetGroupKey(s, key)
          IN  js' = [s |-> s, called |-> TRUE, group |-> o.group, err |-> o.err,
                     fault |-> o.fault, key |-> key]
    /\ UNCHANGED <<once, groups, nistOnce, nistVar, inits, th, ncalls, api, elem, enc, mem>>

NextJsonKey == JsCallKey

SpecJsonKey == Init /\ [][NextJsonKey]_vars

----------------
(* Properties of the registry under concurrent callers *)

RegistryVars == <<once, groups, nistOnce, nistVar, inits>>

\* C1: for each identifier Group.init runs at most once, whatever the
\* interleaving of concurrent get calls, and a slot of the registry is written
\* only by the initialisation of its own identifier.
C1_InitAtMostOnce ==
    [][\A g \in Slots :
          /\ inits'[g] <= 1
          /\ groups'[g] # groups[g] =>
                \E t \in Threads : /\ th[t].g = g
                                   /\ th[t].pc \in {"init", "nistRet"}
                                   /\ th'[t].pc = "onceStore"]_vars

\* two goroutines raced on the same uninitialised identifier, one initialisation
\* ran, and another slot is still untouched
C1_Witness ==
    \E t1, t2 \in Threads :
        /\ t1 # t2
        /\ th[t1].slow /\ th[t2].slow
        /\ th[t1].g = th[t2].g
        /\ th[t1].ret.kind = "ok" /\ th[t2].ret.kind = "ok"
        /\ inits[th[t1].g] = 1
        /\ \E h \in Slots : h # th[t1].g /\ inits[h] = 0 /\ groups[h] = Nil

----------------------------------------------------------------------------
(* Properties of the top-level Group API *)

HashOps == {"HashToGroup", "EncodeToGroup", "HashToScalar"}

FuzzedOps == {"MakeDST", "NewScalar"} \cup HashOps

\* C4: whatever byte is used as the identifier and whatever calls came before,
\* a call of MakeDST, NewScalar, HashToScalar, HashToGroup or EncodeToGroup
\* (non-empty DST) returns or panics with the invalid-identifier error only.
C4_OnlyInvalidGroupFault ==
    (api.op \in FuzzedOps /\ (api.op \in HashOps => Len(api.dst) > 0)) =>
        api.fault \in {NoFault, errInvalidID}

\* C5: the top-level EncodeToGroup returns what the backend's EncodeToGroup
\* (hash_to_field with count = 1, one map) returns, not the random-oracle mapping.
C5_EncodeToGroupIsNonUniform ==
    (api.op = "EncodeToGroup" /\ api.stage = "done") =>
        /\ api.callee = "EncodeToGroup"
        /\ api.val = backendEncodeToGroup(groups[api.g], api.input, api.dst)
        /\ api.val.v.count = 1

\* the hashing operation named op
HashOp(op, r, g, input, dst) ==
    CASE op = "HashToGroup" -> HashToGroup(r, g, input, dst)
      [] op = "EncodeToGroup" -> EncodeToGroup(r, g, input, dst)
      [] op = "HashToScalar" -> HashToScalar(r, g, input, dst)

\* C9: a hashing call panics with the zero-length-DST error exactly when the
\* DST is empty; with a DST of 1 to 15 bytes it stops where, fails as, calls
\* the backend method and leaves the registry as the same call with a 16-byte
\* DST does, and hands the backend the DST it was given.
C9_ZeroLengthDSTOnly ==
    [][(ncalls' # ncalls /\ api'.op \in HashOps) =>
          /\ (api'.fault = errZeroLenDST) <=> (Len(api'.dst) = 0)
          /\ (Len(api'.dst) = 0) => (api'.stage = "checkDST" /\ UNCHANGED RegistryVars)
          /\ (Len(api'.dst) \in 1..15) =>
                LET o == HashOp(api'.op, Reg, api'.g, api'.input, DstOfLen(16)) IN
                /\ api'.stage = o.stage
                /\ api'.fault = o.fault
                /\ api'.callee = o.callee
                /\ Reg' = o.reg
                /\ api'.stage = "done" => api'.val.v.dst = api'.dst]_vars

\* a hashing call with a 15-byte DST went through to the backend
C9_Witness ==
    /\ api.op \in HashOps
    /\ Len(api.dst) = 15
    /\ api.stage = "done"
    /\ api.val.v.dst = api.dst

\* the ciphersuite identifier of each implemented group
SuiteOf(g) ==
    CASE g = Ristretto255Sha512 -> "ristretto255_XMD:SHA-512_R255MAP_RO_"
      [] g = P256Sha256 -> "P256_XMD:SHA-256_SSWU_RO_"
      [] g = P384Sha384 -> "P384_XMD:SHA-384_SSWU_RO_"
      [] g = P521Sha512 -> "P521_XMD:SHA-512_SSWU_RO_"
      [] g = Edwards25519Sha512 -> "edwards25519_XMD:SHA-512_ELL2_RO_"
      [] OTHER -> ""

TwoDigits(n) == IF n < 10 THEN "0" \o Decimal(n) ELSE Decimal(n)

ExpectedDST(app, version, g) ==
    app \o "-V" \o TwoDigits(version) \o "-CS" \o TwoDigits(g) \o "-" \o SuiteOf(g)

DSTFormatHolds ==
    /\ api.fault = NoFault
    /\ api.str = ExpectedDST(api.app, api.version, api.g)
    /\ api.str # ""
    /\ (api.app = "app" /\ api.version = 1 /\ api.g = P256Sha256) =>
            api.str = "app-V01-CS03-P256_XMD:SHA-256_SSWU_RO_"

\* C10: for every available group MakeDST returns app, "-V", the two-digit
\* version, "-CS", the two-digit identifier, "-" and the ciphersuite string,
\* and never the empty string.
C10_MakeDSTFormat ==
    (api.op = "MakeDST" /\ Available(api.g)) => DSTFormatHolds

\* The format itself is what the code produces for each of the five groups
\* Group.init constructs (every available identifier but the Decaf slot).
MakeDSTFormatOfImplemented ==
    (api.op = "MakeDST" /\ Available(api.g) /\ api.g # decaf448Shake256) => DSTFormatHolds

MakeDSTFormatOfImplementedWitness ==
    /\ api.op = "MakeDST" /\ api.g = P256Sha256 /\ api.app = "app" /\ api.version = 1
    /\ api.str = "app-V01-CS03-P256_XMD:SHA-256_SSWU_RO_"

----------------------------------------------------------------------------
(* Properties of the element operations *)

OtherBackend == elem.arg # NilValue /\ elem.arg.curve # elem.old.curve

\* C6: Add, Subtract, Set and Equal with an element of another backend always
\* panic with the element-cast error and never return a value.
C6_ElementCastFault ==
    (elem.op \in {"Add", "Subtract", "Set", "Equal"} /\ OtherBackend) =>
        elem.fault = ErrCastElement

\* C7: Multiply with a scalar of another backend panics with the scalar-cast
\* error, not with the element-cast error and not with a result.
C7_ScalarCastFault ==
    (elem.op = "Multiply" /\ OtherBackend) => elem.fault = ErrCastScalar

\* C8: a nil operand is no error: Add(nil) and Subtract(nil) leave the element
\* as it was and Multiply(nil) makes it the identity of its group.
C8_NilOperand ==
    (elem.op \in {"Add", "Subtract", "Multiply"} /\ elem.arg = NilValue) =>
        /\ elem.fault = NoFault
        /\ elem.op \in {"Add", "Subtract"} => elem.x = elem.old
        /\ elem.op = "Multiply" =>
              (elem.x.v = Mul(0) /\ elem.x.typ = elem.old.typ /\ elem.x.curve = elem.old.curve)

\* Multiply(nil) turned an element other than the identity into the identity
\* after an Add(nil) had left it in place
C8_Witness ==
    /\ elem.op = "Multiply" /\ elem.arg = NilValue
    /\ elem.old.v # Mul(0)
    /\ elem.x.v = Mul(0)
    /\ elem.fault = NoFault

----------------------------------------------------------------------------
(* Properties of the encodings *)

DecodeOps == {"Decode", "UnmarshalBinary"}

\* C11: Decode and UnmarshalBinary of a scalar or an element of any backend on
\* a nil or zero-length input return an error and leave the receiver as it was.
C11_EmptyInputFails ==
    (enc.op \in DecodeOps /\ Len(enc.input) = 0) =>
        /\ enc.err # NoFault
        /\ enc.x = enc.old

\* an Edwards25519 element other than the identity was asked to decode nil
C11_Witness ==
    /\ enc.op = "Decode"
    /\ Len(enc.input) = 0
    /\ enc.old.typ = "edwards25519.Element"
    /\ enc.old.v # Mul(0)
    /\ enc.err = "element Decode: " \o ErrParamNilPoint

\* the bytes NewElement().Encode() produces in the group of the element x
IdentityEncoding(x) == facadeEncode(Identity(x))

\* C12: Element.Decode (and UnmarshalBinary) of the canonical encoding of the
\* identity of the receiver's group returns an error, for every backend.
C12_IdentityRejected ==
    (enc.op \in DecodeOps /\ IsElement(enc.old) /\ enc.input = IdentityEncoding(enc.old)) =>
        enc.err # NoFault

\* an Edwards25519 element was given 01 00 .. 00 and answered with the identity error
C12_Witness ==
    /\ enc.op = "Decode"
    /\ enc.old.typ = "edwards25519.Element"
    /\ enc.old.v # Mul(0)
    /\ enc.input = <<1>> \o Zeros(31)
    /\ enc.err = "element Decode: " \o ErrIdentity

\* the scalars and the non-identity elements of the group of x
RoundTripValues(x) ==
    {y \in Elements \cup Scalars :
        /\ y.typ = x.typ
        /\ y.curve = x.curve
        /\ IsElement(y) => y.v # Mul(0)}

\* C13: whatever the receiver held, Decode (and UnmarshalBinary) of the bytes
\* Encode produces for a scalar or a non-identity element y of the receiver's
\* group succeeds and leaves the receiver equal to y.
C13_RoundTrip ==
    enc.op \in DecodeOps =>
        \A y \in RoundTripValues(enc.old) :
            enc.input = facadeEncode(y) => (enc.err = NoFault /\ enc.x = y)

\* an element of P-521 that held B decoded the 67 bytes of 3*B
C13_Witness ==
    /\ enc.op = "Decode"
    /\ enc.err = NoFault
    /\ enc.old.typ = "nist.Point" /\ enc.old.curve = "p521"
    /\ enc.old.v = Mul(1)
    /\ enc.x.v = Mul(3)
    /\ Len(enc.input) = 67

\* the encoded element length of each group
ExpectedElementLength(x) ==
    CASE x.curve = "p256" -> 33
      [] x.curve = "p384" -> 49
      [] x.curve = "p521" -> 67
      [] x.curve = "ristretto" -> 32
      [] x.curve = "edwards25519" -> 32

----------------------------------------------------------------------------
(* Properties of the group arithmetic *)

\* the scalars of the group of the element x
ScalarsOf(x) == {s \in Scalars : s.typ = scalarTypeOf(x) /\ s.curve = x.curve}

SameGroup(x, y) == y # NilValue /\ y.typ = x.typ /\ y.curve = x.curve

\* C15: multiplying the generator B (or any element) by the scalar a + b gives
\* the element that adding a*B and b*B gives, for all scalars a, b of the group.
C15_MultDistributes ==
    (elem.op = "Multiply" /\ elem.arg \in ScalarsOf(elem.old)) =>
        \A a, b \in ScalarsOf(elem.old) :
            scalarAdd(a, b) = elem.arg =>
                /\ elem.fault = NoFault
                /\ elem.x = facadeAdd(facadeMultiply(elem.old, a).x,
                                      facadeMultiply(elem.old, b).x).x

\* the generator of P-256 was multiplied by the scalar 3, the sum of 1 and 2
C15_Witness ==
    /\ elem.op = "Multiply"
    /\ elem.old = backendBase(nistPtr("p256"))
    /\ elem.arg \in ScalarsOf(elem.old)
    /\ elem.arg.v = Mul(3)
    /\ elem.x.v = Mul(3)
    /\ elem.fault = NoFault

\* C16: the element NewElement returns is the identity, and the identity is
\* neutral: identity + x = x, x + identity = x and identity * s = identity for
\* every element x and scalar s of the group.
C16_IdentityNeutral ==
    /\ \A p \in Backends : IsIdentity(backendNewElement(p))
    /\ (elem.op = "Add" /\ SameGroup(elem.old, elem.arg) /\ IsIdentity(elem.old)) =>
            (elem.fault = NoFault /\ elem.x = elem.arg)
    /\ (elem.op = "Add" /\ SameGroup(elem.old, elem.arg) /\ IsIdentity(elem.arg)) =>
            (elem.fault = NoFault /\ elem.x = elem.old)
    /\ (elem.op = "Multiply" /\ elem.arg \in ScalarsOf(elem.old) /\ IsIdentity(elem.old)) =>
            (elem.fault = NoFault /\ IsIdentity(elem.x))

\* the identity of Edwards25519, as NewElement returns it, took the value of
\* the element 2*B added to it
C16_Witness ==
    /\ elem.op = "Add"
    /\ elem.old = backendNewElement(edwards25519New)
    /\ SameGroup(elem.old, elem.arg)
    /\ elem.arg.v = Mul(2)
    /\ elem.x = elem.arg

\* C17: x + (-x) and x - x are the identity, -(-x) = x, -identity = identity,
\* and (x + y) - y = x, for all elements x, y of a group.
C17_NegateSubtractInverse ==
    [][/\ (elem'.op = "Add" /\ SameGroup(elem'.old, elem'.arg)
              /\ elem'.arg = facadeNegate(elem'.old).x) =>
                (elem'.fault = NoFault /\ IsIdentity(elem'.x))
       /\ (elem'.op = "Add" /\ elem.op = "Negate" /\ elem'.arg = elem.old) =>
                (elem'.fault = NoFault /\ IsIdentity(elem'.x))
       /\ (elem'.op = "Subtract" /\ elem'.arg = elem'.old) =>
                (elem'.fault = NoFault /\ IsIdentity(elem'.x))
       /\ (elem'.op = "Negate" /\ elem.op = "Negate") => elem'.x = elem.old
       /\ (elem'.op = "Negate" /\ IsIdentity(elem'.old)) => IsIdentity(elem'.x)
       /\ (elem'.op = "Subtract" /\ elem.op = "Add" /\ elem.fault = NoFault
              /\ SameGroup(elem.old, elem.arg) /\ elem'.arg = elem.arg) =>
                (elem'.fault = NoFault /\ elem'.x = elem.old)]_vars

\* the element B of P-384 was subtracted from itself and is the identity
C17_Witness ==
    /\ elem.op = "Subtract"
    /\ elem.old.typ = "nist.Point" /\ elem.old.curve = "p384"
    /\ elem.arg = elem.old
    /\ elem.old.v = Mul(1)
    /\ IsIdentity(elem.x)
    /\ elem.fault = NoFault

RECURSIVE SumOf(_, _)
\* x added k times in place to the identity of its group
SumOf(x, k) == IF k = 0 THEN Identity(x) ELSE facadeAdd(SumOf(x, k - 1), x).x

\* the scalar 2 of the group of x
TwoOf(x) == CHOOSE s \in ScalarsOf(x) : s.v = Mul(2 % Order)

\* C18: Multiply by the scalar k gives the k-fold sum of the element (the
\* identity for 0, the element for 1), and adding an element to itself gives
\* what Double gives and what multiplying by 2 gives.
C18_MultIsRepeatedAdd ==
    /\ (elem.op = "Multiply" /\ elem.arg \in ScalarsOf(elem.old)) =>
            /\ elem.fault = NoFault
            /\ elem.x = SumOf(elem.old, elem.arg.v.n)
            /\ elem.arg.v.n = 0 => IsIdentity(elem.x)
            /\ elem.arg.v.n = 1 => elem.x = elem.old
    /\ (elem.op = "Add" /\ elem.arg = elem.old) =>
            /\ elem.fault = NoFault
            /\ elem.x = facadeDouble(elem.old).x
            /\ elem.x = facadeMultiply(elem.old, TwoOf(elem.old)).x
    /\ elem.op = "Double" =>
            /\ elem.x = facadeAdd(elem.old, elem.old).x
            /\ elem.x = facadeMultiply(elem.old, TwoOf(elem.old)).x

\* the Edwards25519 element 2*B was multiplied by 3 and is the sum 2*B + 2*B + 2*B
C18_Witness ==
    /\ elem.op = "Multiply"
    /\ elem.old.typ = "edwards25519.Element"
    /\ elem.old.v = Mul(2)
    /\ elem.arg \in ScalarsOf(elem.old)
    /\ elem.arg.v = Mul(3)
    /\ elem.x = SumOf(elem.old, 3)
    /\ elem.x.v = Mul(6 % Order)

----------------------------------------------------------------------------
(* Properties of JSONReGetGroup *)

\* the identifiers for which Group.init constructs a group
ImplementedGroups ==
    {Ristretto255Sha512, P256Sha256, P384Sha384, P521Sha512, Edwards25519Sha512}

\* the key is followed by a token somewhere in s
Located(s) == \E i \in 1..Len(s) : MatchesAt(s, i)

\* the token after the first key that has one
TokenOf(s) == FindStringSubmatch(s)[2]

\* the token is a decimal numeral of an int
FitsInt(f) == Atoi(f).err = NoFault

\* the int of the token is one of the identifiers in ids
TokenIn(f, ids) == ~Atoi(f).big /\ Atoi(f).n \in ids

errReadGroup(e) == "failed to read Group: strconv.Atoi: " \o e

\* C19: JSONReGetGroup returns a group only when the integer after the "group"
\* key is the identifier of an implemented curve, and then that group; every
\* other integer, the slot 2, 70 and whatever is 256 or more included, is
\* rejected with the invalid-group error.
C19_OnlyImplementedGroups ==
    js.called =>
        /\ (js.err = NoFault /\ js.fault = NoFault) =>
              /\ Located(js.s) /\ FitsInt(TokenOf(js.s))
              /\ TokenIn(TokenOf(js.s), ImplementedGroups)
              /\ js.group = Atoi(TokenOf(js.s)).n
        /\ (Located(js.s) /\ FitsInt(TokenOf(js.s))
                /\ ~TokenIn(TokenOf(js.s), ImplementedGroups)) =>
              js.err = ErrInvalidGroup

\* What the code does: the same with the whole range 1..maxID-1 accepted,
\* so that 0, 7, 63, 64, 70, 255, 256, 258 and the larger ints are rejected
\* and nothing wraps modulo 256.
JSONReGetGroupAcceptsSlots ==
    js.called =>
        /\ (js.err = NoFault /\ js.fault = NoFault) =>
              /\ Located(js.s) /\ FitsInt(TokenOf(js.s))
              /\ TokenIn(TokenOf(js.s), Slots)
              /\ js.group = Atoi(TokenOf(js.s)).n
        /\ (Located(js.s) /\ FitsInt(TokenOf(js.s)) /\ ~TokenIn(TokenOf(js.s), Slots)) =>
              js.err = ErrInvalidGroup

JSONReGetGroupAcceptsSlotsWitness ==
    /\ js.called
    /\ Located(js.s) /\ TokenOf(js.s) = <<"2", "5", "8">>
    /\ js.err = ErrInvalidGroup

\* C20: JSONReGetGroup never panics; the error is the invalid-JSON-encoding
\* error exactly when no "group" key with a token is found (a value of -1 has
\* no token), a "failed to read Group" error exactly when the token is not an
\* int (the out-of-range error for a numeral above the largest int), and the
\* invalid-group error only for an int outside the identifiers 1..maxID-1.
C20_ErrorClasses ==
    js.called =>
        /\ js.fault = NoFault
        /\ (js.err = ErrDecodingInvalidJSONEncoding) <=> ~Located(js.s)
        /\ Located(js.s) =>
              LET f == TokenOf(js.s) IN
              /\ (js.err \in {errReadGroup(errAtoiSyntax), errReadGroup(errAtoiRange)})
                     <=> ~FitsInt(f)
              /\ ((\A i \in 1..Len(f) : f[i] \in DigitChars) /\ ~FitsInt(f)) =>
                     js.err = errReadGroup(errAtoiRange)
              /\ (js.err = ErrInvalidGroup) => (FitsInt(f) /\ ~TokenIn(f, Slots))

\* the numeral 9223372036854775808 after the only "group" key
C20_Witness ==
    /\ js.called
    /\ Located(js.s)
    /\ Len(TokenOf(js.s)) = Len(MaxInt64Digits)
    /\ SubSeq(TokenOf(js.s), 1, Len(MaxInt64Digits) - 1) =
           SubSeq(MaxInt64Digits, 1, Len(MaxInt64Digits) - 1)
    /\ TokenOf(js.s)[Len(MaxInt64Digits)] = "8"
    /\ js.err = "failed to read Group: strconv.Atoi: value out of range"
    /\ js.fault = NoFault

\* the value -1 after the only "group" key
NegativeValueNotLocated ==
    /\ js.called
    /\ js.s = <<"{">> \o keyPattern \o <<"-", "1">> \o JsonSuffix
    /\ js.err = "invalid JSON encoding"

----------------------------------------------------------------------------
(* Properties of the hashing operations *)

\* the registry of a program that has made no call yet
FreshReg ==
    [once |-> [g \in Slots |-> NewOnce], groups |-> [g \in Slots |-> Nil],
     nistOnce |-> [c \in NistCurves |-> NewOnce],
     nistVar |-> [c \in NistCurves |-> ZeroGroup], inits |-> [g \in Slots |-> 0]]

\* a.Equal(b) answers true
EqualResults(a, b) == backendEqual(a, b) = [eq |-> TRUE, fault |-> NoFault]

----------------------------------------------------------------------------
(* Properties of the elements in memory *)

InPlaceOps == {"Add", "Double", "Set"}

\* the variables other than the receiver of the last call
Others(recv) == Bound(mem) \ {recv}

\* C23: Copy gives c the value of x and leaves x as it was; Add, Double and
\* Set change their receiver, return it, and leave the value of the other
\* element as it was; Set(nil) makes the receiver the identity.
C23_CopyIsIndependent ==
    [][LET l == mem'.last IN
       /\ l.op = "Copy" =>
             /\ l.fault = NoFault
             /\ mem'.c = l.ret
             /\ ValOf(mem', "c") = ValOf(mem, "x")
             /\ ValOf(mem', "x") = ValOf(mem, "x")
             /\ facadeEqual(ValOf(mem', "c"), ValOf(mem', "x")).eq
       /\ l.op \in InPlaceOps =>
             /\ l.fault = NoFault
             /\ l.ret = mem'[l.recv]
             /\ \A n \in Others(l.recv) : ValOf(mem', n) = ValOf(mem, n)
       /\ (l.op = "Add" /\ l.arg # "nil") =>
             ValOf(mem', l.recv).v = pointAdd(ValOf(mem, l.recv), ValOf(mem, l.arg))
       /\ l.op = "Double" =>
             ValOf(mem', l.recv).v = pointAdd(ValOf(mem, l.recv), ValOf(mem, l.recv))
       /\ (l.op = "Set" /\ l.arg # "nil") =>
             ValOf(mem', l.recv).v = ValOf(mem, l.arg).v
       /\ (l.op = "Set" /\ l.arg = "nil") => IsIdentity(ValOf(mem', l.recv))]_vars

\* x.Add(x) after c = x.Copy() of the Edwards25519 base point: x is 2*B, c is B
C23_Witness ==
    /\ mem.last.op = "Add" /\ mem.last.recv = "x" /\ mem.last.arg = "x"
    /\ mem.c # 0 /\ mem.c # mem.x
    /\ ValOf(mem, "x").typ = "edwards25519.Element"
    /\ ValOf(mem, "x").v = Mul(2)
    /\ ValOf(mem, "c").v = Mul(1)

BackendOps == {"backend.Add", "backend.Sub", "backend.Mult"}

SourceBackends == {"edwards25519.Element", "nist.Point"}

\* C24: Add, Sub and Mult of an Edwards25519 or NIST element return an element
\* of the receiver's group whose point no other element refers to, and the
\* receiver and the argument have the values they had.
C24_BackendOpsAllocate ==
    [][LET l == mem'.last IN
       (l.op \in BackendOps /\ ValOf(mem, "x").typ \in SourceBackends) =>
           /\ l.fault = NoFault
           /\ mem'.r # NilRef
           /\ mem'.r.typ = ValOf(mem, l.recv).typ
           /\ mem'.r.curve = ValOf(mem, l.recv).curve
           /\ mem'.r.pt \notin {mem'.objs[mem'[n]].pt : n \in Bound(mem')}
           /\ \A n \in Bound(mem) : ValOf(mem', n) = ValOf(mem, n)
           /\ l.op = "backend.Add" =>
                 Deref(mem', mem'.r).v = pointAdd(ValOf(mem, l.recv), ValOf(mem, l.arg))
           /\ l.op = "backend.Sub" =>
                 Deref(mem', mem'.r).v = pointSub(ValOf(mem, l.recv), ValOf(mem, l.arg))]_vars

\* r = x.Sub(c) on P-384 with x = 3*B and c = B: r is 2*B in a point of its own
C24_Witness ==
    /\ mem.last.op = "backend.Sub" /\ mem.last.recv = "x" /\ mem.last.arg = "c"
    /\ ValOf(mem, "x").typ = "nist.Point" /\ ValOf(mem, "x").curve = "p384"
    /\ ValOf(mem, "x").v = Mul(3) /\ ValOf(mem, "c").v = Mul(1)
    /\ Deref(mem, mem.r).v = Mul(2)
    /\ mem.r.pt \notin {mem.objs[mem.x].pt, mem.objs[mem.c].pt}

\* the positions of s at which the "group" key is followed by a token
Occurrences(s) == {i \in 1..Len(s) : MatchesAt(s, i)}

\* C25: an input in which the "group" key occurs with a value more than once
\* is answered with an error.
C25_AmbiguityFailsClosed ==
    (js.called /\ Cardinality(Occurrences(js.s)) > 1) => js.err # NoFault

\* What the code does with more than one occurrence: it answers as for the
\* first of them alone.
JSONReGetGroupTakesFirst ==
    (js.called /\ Cardinality(Occurrences(js.s)) > 1) =>
        LET i == CHOOSE k \in Occurrences(js.s) : \A j \in Occurrences(js.s) : k <= j
            o == JSONReGetGroup(SubSeq(js.s, i, Len(js.s)))
            first == JSONReGetGroup(SubSeq(js.s, 1, i + Len(keyPattern) + Len(TokenOf(js.s)) - 1))
        IN  /\ js.group = first.group /\ js.err = first.err
            /\ js.group = o.group /\ js.err = o.err

JSONReGetGroupTakesFirstWitness ==
    /\ js.called
    /\ Cardinality(Occurrences(js.s)) = 2
    /\ js.group = P256Sha256 /\ js.err = NoFault
    /\ \E i \in Occurrences(js.s) : WordRun(js.s, i + Len(keyPattern)) = <<"6">>

----------------------------------------------------------------------------
(* Properties of JSONReGetGroup with a key *)

\* the key is written in s, as literal text, and followed by a token
WrittenIn(key, s) == \E i \in 1..Len(s) : PatMatchesAtLiteral(keyedPattern(key), s, i)

\* C26: whatever key the caller passes, the call does not panic, and it finds
\* a value only if the key it looks for (the first key given, "group" if none
\* or an empty one is given) is written in the input as literal text; it
\* fails with the invalid-JSON-encoding error otherwise.
C26_KeyIsLiteral ==
    js.called =>
        /\ js.fault = NoFault
        /\ (js.err = ErrDecodingInvalidJSONEncoding) <=> ~WrittenIn(reKey(js.key), js.s)

\* What holds of the code: an absent or empty key is the key "group", and a
\* key of letters only is looked for as it is written.
KeyFallsBackToGroup ==
    js.called =>
        /\ (~js.key.given \/ js.key.k = <<>>) =>
              /\ reKey(js.key) = groupKey
              /\ JsRes(js.group, js.err, js.fault) = JSONReGetGroup(js.s)
        /\ (js.key.given /\ js.key.k # <<>>) => reKey(js.key) = js.key.k
        /\ (\A i \in 1..Len(reKey(js.key)) : reKey(js.key)[i] \in LetterChars) =>
              /\ js.fault = NoFault
              /\ (js.err = ErrDecodingInvalidJSONEncoding) <=> ~WrittenIn(reKey(js.key), js.s)

KeyFallsBackToGroupWitness ==
    /\ js.called
    /\ js.key = [given |-> TRUE, k |-> <<>>]
    /\ WrittenIn(groupKey, js.s)
    /\ js.group = Edwards25519Sha512 /\ js.err = NoFault

\* A key with a dot finds the value of another key, one with a parenthesis panics.
KeyIsAnExpression ==
    js.called =>
        /\ (\E i \in 1..Len(js.key.k) : js.key.k[i] = "(") => js.fault = panicRegexp
        /\ (js.key.k = <<"g", ".", "o", "u", "p">> /\ WrittenIn(<<"g", "a", "o", "u", "p">>, js.s)) =>
              js.err # ErrDecodingInvalidJSONEncoding

KeyIsAnExpressionWitness ==
    /\ js.called
    /\ js.key.k = <<"g", ".", "o", "u", "p">>
    /\ WrittenIn(<<"g", "a", "o", "u", "p">>, js.s)
    /\ js.group = P256Sha256 /\ js.err = NoFault

----------------------------------------------------------------------------
(* Properties of the NIST scalars *)

ScalarOps == {"NewScalar", "HashToScalar"}

\* C27: a scalar returned by NewScalar or HashToScalar of a NIST group refers
\* to the scalar field of the group, the field of the group order.
C27_ScalarFieldIsOrder ==
    (api.op \in ScalarOps /\ api.stage = "done" /\ IsNist(api.g)) =>
        /\ api.val.typ = "nist.Scalar"
        /\ api.val.field = "ScalarField"

\* What the code does: NewScalar refers to ScalarField, HashToScalar to the
\* field of the coordinates.
HashToScalarRefersToCurveField ==
    (api.op \in ScalarOps /\ api.stage = "done" /\ IsNist(api.g)) =>
        /\ api.val.typ = "nist.Scalar"
        /\ api.op = "NewScalar" => api.val.field = "ScalarField"
        /\ api.op = "HashToScalar" => api.val.field = "Curve.field"

HashToScalarRefersToCurveFieldWitness ==
    /\ api.op = "HashToScalar" /\ api.stage = "done" /\ api.g = P384Sha384
    /\ api.val.field = "Curve.field"

----------------------------------------------------------------------------
(* The receiver of a failed Decode *)

\* C28: when Decode of an element returns an error, the element has the
\* value it had before the call.
C28_FailedDecodeKeepsReceiver ==
    (enc.op = "Decode" /\ IsElement(enc.old) /\ enc.err # NoFault) => enc.x = enc.old

\* What the code does: the receiver is kept on every error but the identity
\* error of the Edwards25519 element, which leaves the receiver the identity.
FailedDecodeKeepsReceiverButIdentity ==
    (enc.op = "Decode" /\ IsElement(enc.old) /\ enc.err # NoFault) =>
        IF enc.old.typ = "edwards25519.Element" /\ enc.input = edwardsPointBytes(Mul(0))
          THEN IsIdentity(enc.x)
          ELSE enc.x = enc.old

FailedDecodeKeepsReceiverButIdentityWitness ==
    /\ enc.op = "Decode"
    /\ enc.old = newPoint(edwards25519New, Mul(1))
    /\ enc.input = edwardsPointBytes(Mul(0))
    /\ enc.err # NoFault
    /\ enc.x = newPoint(edwards25519New, Mul(0))

----------------------------------------------------------------------------
(* What Group.get returns, and that it returns *)

\* C29: a get that returns hands out a backend instance, never nil.
C29_GetReturnsNonNil ==
    \A t \in Threads : th[t].ret.kind = "ok" => th[t].ret.val # Nil

\* What the code does: only a get of the Decaf identifier, after the get whose
\* initialisation panicked, returns nil.
GetReturnsNilForDecafOnly ==
    \A t \in Threads :
        th[t].ret.kind = "ok" =>
            IF th[t].ret.g = decaf448Shake256
              THEN th[t].ret.val = Nil /\ inits[decaf448Shake256] = 1
              ELSE th[t].ret.val = initKind(th[t].ret.g).inst /\ th[t].ret.val # Nil

GetReturnsNilForDecafOnlyWitness ==
    \E t, u \in Threads :
        /\ th[t].ret = [kind |-> "panic", g |-> decaf448Shake256, val |-> Nil, fault |-> panicDecaf]
        /\ th[u].ret = [kind |-> "ok", g |-> decaf448Shake256, val |-> Nil, fault |-> NoFault]

\* The mutex of a curve's once is taken only by the goroutine that holds the
\* mutex of the identifier's once, and no goroutine holds two of either kind.
OnceNestingOrder ==
    /\ \A c \in NistCurves :
          nistOnce[c].m # NoThread =>
              \E g \in Slots : /\ IsNist(g) /\ nistCurveOf(g) = c
                               /\ once[g].m = nistOnce[c].m
    /\ \A g \in Slots, h \in Slots : (once[g].m # NoThread /\ once[g].m = once[h].m) => g = h

\* C30: under a fair scheduler every get of an implemented identifier that a
\* goroutine has started returns its instance, whatever the other goroutines
\* call at the same time, and the mutex of a curve's once is only ever taken
\* inside the mutex of the identifier's once.
C30_GetReturns ==
    /\ []OnceNestingOrder
    /\ \A t \in Threads :
          (th[t].pc # "idle") ~> (th[t].pc = "idle" /\ th[t].ret.kind = "ok")

\* one goroutine is inside the initialiser of P-384 under both mutexes while
\* another waits for the mutex of the once of P-384
C30_Witness ==
    \E t, u \in Threads :
        /\ th[t].g = P384Sha384 /\ th[t].pc = "nistSlow"
        /\ once[P384Sha384].m = t /\ nistOnce["p384"].m = t
        /\ th[u].g = P384Sha384 /\ th[u].pc = "onceLock"

====
